---------------------------- MODULE Spec2Model ----------------------------
(***************************************************************************)
(* Proof-of-GPU validator: the legacy round (proof_of_gpu with its worker  *)
(* pool and test_miner_gpu), the private-slot round (proof_of_gpu_sybil    *)
(* with _run_sybil_benchmark) and the challenge/proof verifier             *)
(* (verify_responses over the node's commitment).                          *)
(***************************************************************************)
EXTENDS Integers, Sequences, FiniteSets, TLC

(***************************************************************************)
(* Bounds of the model.                                                    *)
(***************************************************************************)
RetryLimit == 2   \* pog_retry_limit
MaxN == 3         \* largest matrix dimension n
MaxGpus == 6      \* largest number of GPU slots of a node
NumIdx == 2       \* num_indices, the challenged (i, j) pairs of a slot
ValBits == 7      \* matrix entries are multiples of 2^-ValBits
MaxLeaves == 7    \* largest number of rows of a committed tree
MaxTime == 3      \* largest benchmark time, tolerance and gemm time
MaxTimings == 3   \* largest number of entries of a TIMINGS line
MaxBlock == 7     \* the chain height stops here
MaxEpochLen == 3  \* largest blocks_per_epoch
MaxValidators == 2  \* largest validator set
MaxChallenge == 1 \* largest max_challenge_blocks
MaxDelay == 2     \* largest rand_delay_blocks_max
MaxRetryLimit == 4  \* largest pog_retry_limit of the retry loop
MaxInterval == 4  \* largest pog_retry_interval
MaxMiners == 3    \* hotkeys followed in miner_details
MaxInstances == 3 \* processes of the health-check server script on one port
MaxOrphans == 1   \* running rounds that self.gpu_task no longer refers to
MaxWidth == 3     \* longest row of words given to the two row hashes

\* The tests of different nodes share nothing but the queue, the pool and
\* the results map: two nodes, two workers and two executor threads show
\* every interaction between them.
Nodes == {1, 2}
Workers == {1, 2}
Threads == {1, 2}

(***************************************************************************)
(* Values of the tuples test_miner_gpu returns: (hotkey, gpu_name,         *)
(* num_gpus); the hotkey is the node, kept in the lifecycle record.        *)
(***************************************************************************)
NoResult == [name |-> "unset", n |-> 0]
RetSuccess(g) == [name |-> "gpu", n |-> g]
RetHealth == [name |-> "None", n |-> -1]
RetFail == [name |-> "None", n |-> 0]

Modes == {"gpu_info", "benchmark", "compute", "proof"}

\* len(gpu_timings_list): the worker only distinguishes 0 from a positive count
GpuCounts == {0, 1}

VARIABLES
    mode,          \* which round the main loop has started
    max_workers,   \* merkle_proof.max_workers, the configured ceiling
    queue,         \* asyncio.Queue of nodes to test
    unfinished,    \* the queue's count of unfinished tasks (put minus task_done)
    retry_counts,  \* retry_counts[hotkey]
    results,       \* self.results
    pog_stats,     \* what update_pog_stats last wrote for the node
    wpc,           \* position of each worker coroutine
    waxon,         \* the node a worker took from the queue
    wcause,        \* why the worker is on its retry path
    execQ,         \* work items submitted to self.executor, not yet started
    thr,           \* the lifecycle each executor thread is running
    loopOwner,     \* the coroutine that holds the event loop in a blocking section
    sthr,          \* private-slot round: the _run_sybil_benchmark thread of each node
    sdone,         \* private-slot round: the futures asyncio.wait returned as done
    penalized,     \* self.penalized_hotkeys
    attempts,      \* history: number of times the node was taken from the queue
    resultsFrom    \* history: the flags of the attempt that wrote results[node]

roundVars == <<mode, max_workers, queue, unfinished, retry_counts, results, pog_stats, wpc, waxon,
               wcause, execQ, thr, loopOwner, sthr, sdone, penalized, attempts, resultsFrom>>

\* One challenge/proof exchange seen from both ends: what the verifier holds
\* and what the node keeps in /dev/shm.
VARIABLES
    vpc,                  \* position in the exchange
    dim,                  \* n, the matrix dimension written to /tmp/seeds.txt
    seeds,                \* seeds[gpu_id] = (s_A, s_B)
    shm,                  \* the node's rows_{gid}.npy and flat_{gid}.npy
    root_hashes,          \* root_hashes[gpu_id]
    indices,              \* indices[gpu_id] = list of (i, j)
    responses,            \* responses[gpu_id] = {"rows": [...], "proofs": [...]}
    failed_gpus,          \* verify_responses: the slots that failed
    verification_passed,  \* verify_responses: the value returned
    cheat                 \* how the node deviates from the benchmark program

verifyVars == <<vpc, dim, seeds, shm, root_hashes, indices, responses, failed_gpus,
                verification_passed, cheat>>

\* One committed tree, one extracted path and its verification: the node's
\* rows and node blob, the root the verifier holds, and the reported row.
VARIABLES
    mpc,          \* position: "start", "built", "proved", "checked"
    tree_rows,    \* rows_{gid}.npy: the committed rows
    tree_flat,    \* flat_{gid}.npy: every node of the tree, level after level
    tree_root,    \* the root the verifier received
    altered,      \* the leaf whose stored digest was overwritten, or -1
    leaf_index,   \* the challenged row index
    leaf_row,     \* the row reported for it
    leaf_proof,   \* the sibling path reported for it
    flipped,      \* <<word, bit>> flipped in the reported row, or <<>>
    accepted      \* what verify_merkle_proof_row returned

merkleVars == <<mpc, tree_rows, tree_flat, tree_root, altered, leaf_index, leaf_row,
                leaf_proof, flipped, accepted>>

\* The timing check of one run of test_miner_gpu; times are counted in
\* whole units.
VARIABLES
    tpc,               \* position: "start", "benchmarked", "timed"
    time_tol,          \* merkle_proof["time_tolerance"]
    time_fp32,         \* the fp32 time parse_benchmark_output returned
    elapsed_time,      \* wall-clock time of the compute mode
    gpu_timings_list,  \* the gemm time of each entry of the TIMINGS line
    timing_passed

timingVars == <<tpc, time_tol, time_fp32, elapsed_time, gpu_timings_list, timing_passed>>

\* The chain and the epoch configuration of this validator.
VARIABLES
    booted,                 \* the configuration was read
    chain,                  \* the chain height get_current_block returns
    blocks_per_epoch,
    validators,             \* len(get_valid_validator_hotkeys())
    my_index,               \* position of our hotkey in the sorted set, or
                            \* validators when it is not in the set
    max_challenge_blocks,
    rand_delay_blocks_max,
    eligible                \* our hotkey is in sybil_eligible_hotkeys

chainVars == <<booted, chain, blocks_per_epoch, validators, my_index,
               max_challenge_blocks, rand_delay_blocks_max, eligible>>

\* One run of proof_of_gpu_sybil up to the launch of the challenges.
VARIABLES
    spc,            \* position: "idle", "slot", "check", "draw", "sleeping"
    slot_epoch,     \* the epoch my_sybil_slot was evaluated for
    slot_start,
    slot_end,
    checked_at,     \* the height read by the test against latest_start, or -1
    drawn_at,       \* the height read when the delay was drawn, or -1
    delay_blocks,
    outcome         \* "none", "skipped", "raised", "challenged"

slotVars == <<spc, slot_epoch, slot_start, slot_end, checked_at, drawn_at, delay_blocks,
              outcome>>

\* The main loop of start().
VARIABLES
    lpc,               \* position: "top", "gate", "mark", "launch", "tail", "sleep"
    epoch,             \* the local epoch of the iteration
    blocks_done,       \* self.blocks_done
    last_pog_epoch,
    last_sybil_epoch,
    gpu_task,          \* self.gpu_task: "none", "pog", "sybil" or "finished"
    callback,          \* on_gpu_task_done of a finished legacy round: "none",
                       \* "scheduled", or "overtaken" by the loop's wake-up
    orphans,           \* running rounds self.gpu_task no longer refers to
    launches           \* history: the tasks created in one epoch, each with the
                       \* height read last before it

loopVars == <<lpc, epoch, blocks_done, last_pog_epoch, last_sybil_epoch, gpu_task,
              callback, orphans, launches>>

VARIABLES
    rpc,            \* position of the worker with one node: its test or its sleep
    retry_limit,    \* merkle_proof.pog_retry_limit
    retry_interval, \* merkle_proof.pog_retry_interval
    retries,        \* retry_counts[hotkey]
    slept,          \* the delays awaited before each re-queueing of the node
    recorded        \* what update_pog_stats wrote for the node

retryVars == <<rpc, retry_limit, retry_interval, retries, slept, recorded>>

VARIABLES
    gpc,     \* which of the two sides have computed the cell's generator state
    gseed,   \* the 32-bit seed of the matrix
    gi,      \* the row i of the cell
    gj,      \* the column j of the cell
    vstate,  \* s in prng() before the division
    mstate   \* s in gen_matrix() for the cell before the division

prngVars == <<gpc, gseed, gi, gj, vstate, mstate>>

VARIABLES
    miner_details,  \* no_specs_count of each hotkey's row of the table, NoRow without a row
    calls,          \* the hotkeys with specs at the last two calls, oldest first
    removed         \* the hotkeys whose row the last call deleted

detailsVars == <<miner_details, calls, removed>>

VARIABLES
    ipc,       \* position of each instance of the health-check server script
    pid_file,  \* the process id in /tmp/health_check_server_<port>.pid, NoFile if absent
    listener   \* the instance whose socket is bound to the port, NoInstance if none

pidVars == <<ipc, pid_file, listener>>

VARIABLES
    hpc,                  \* position in perform_health_check
    henv,                 \* how each remote step of this call turns out
    ran,                  \* the steps run so far, in order
    health_check_result   \* the value returned

healthVars == <<hpc, henv, ran, health_check_result>>

VARIABLES
    dpc,           \* position in Steps 6 and 7 of test_miner_gpu
    n_seeds,       \* the n written to /tmp/seeds.txt by send_seeds
    gpu_timings,   \* the 'n' of each entry of the node's TIMINGS line, by gpu_id
    n_verify,      \* the local n of test_miner_gpu
    drawn,         \* the (i, j) drawn for a slot
    merkle_leaves  \* total_leaves = 2 * n in verify_responses

dimVars == <<dpc, n_seeds, gpu_timings, n_verify, drawn, merkle_leaves>>

VARIABLES
    hashpc,    \* "start", "committed" (the node hashed the row), "recomputed"
    hrow,      \* the float32 words of the row
    gpu_hash,  \* row_hash_gpu's digest of the row, as the leaf packs it
    np_hash    \* row_hash32_np's digest of the returned row

hashVars == <<hashpc, hrow, gpu_hash, np_hash>>

vars == <<roundVars, verifyVars, merkleVars, timingVars, chainVars, slotVars, loopVars,
    retryVars, prngVars, detailsVars, pidVars, healthVars, dimVars, hashVars>>

\* what a step of one part of the model leaves alone
exceptRound == <<verifyVars, merkleVars, timingVars, chainVars, slotVars, loopVars,
    retryVars, prngVars, detailsVars, pidVars, healthVars, dimVars, hashVars>>
exceptVerify == <<roundVars, merkleVars, timingVars, chainVars, slotVars, loopVars,
    retryVars, prngVars, detailsVars, pidVars, healthVars, dimVars, hashVars>>
exceptMerkle == <<roundVars, verifyVars, timingVars, chainVars, slotVars, loopVars,
    retryVars, prngVars, detailsVars, pidVars, healthVars, dimVars, hashVars>>
exceptTiming == <<roundVars, verifyVars, merkleVars, chainVars, slotVars, loopVars,
    retryVars, prngVars, detailsVars, pidVars, healthVars, dimVars, hashVars>>
exceptSlot == <<roundVars, verifyVars, merkleVars, timingVars, loopVars, retryVars,
    prngVars, detailsVars, pidVars, healthVars, dimVars, hashVars>>
exceptLoop == <<roundVars, verifyVars, merkleVars, timingVars, slotVars, retryVars,
    prngVars, detailsVars, pidVars, healthVars, dimVars, hashVars>>
exceptRetry == <<roundVars, verifyVars, merkleVars,
    timingVars, chainVars, slotVars, loopVars, prngVars, detailsVars, pidVars, healthVars,
    dimVars, hashVars>>
exceptPrng == <<roundVars, verifyVars, merkleVars, timingVars,
    chainVars, slotVars, loopVars, retryVars, detailsVars, pidVars, healthVars, dimVars,
    hashVars>>
exceptDetails == <<roundVars, verifyVars, merkleVars, timingVars,
    chainVars, slotVars, loopVars, retryVars, prngVars, pidVars, healthVars, dimVars,
    hashVars>>
exceptPid == <<roundVars, verifyVars, merkleVars, timingVars, chainVars,
    slotVars, loopVars, retryVars, prngVars, detailsVars, healthVars, dimVars, hashVars>>
exceptHealth == <<roundVars, verifyVars, merkleVars, timingVars, chainVars,
    slotVars, loopVars, retryVars, prngVars, detailsVars, pidVars, dimVars, hashVars>>
exceptDim == <<roundVars, verifyVars, merkleVars, timingVars, chainVars, slotVars,
    loopVars, retryVars, prngVars, detailsVars, pidVars, healthVars, hashVars>>
exceptHash == <<roundVars, verifyVars, merkleVars, timingVars, chainVars, slotVars,
    loopVars, retryVars, prngVars, detailsVars, pidVars, healthVars, dimVars>>

(***************************************************************************)
(* One run of test_miner_gpu.                                              *)
(***************************************************************************)
IdleLife ==
    [pc |-> "idle", node |-> 0, owner |-> 0,
     alloc |-> FALSE,      \* allocation_status
     dealloc |-> FALSE,    \* deallocate_miner was called
     invoked |-> {},       \* modes of the remote program run so far
     mismatch |-> FALSE,   \* local_hash != remote_hash was observed
     roots |-> FALSE,      \* root hashes received and parsed
     idx |-> FALSE,        \* challenge indices generated and sent
     ng |-> 0,             \* num_gpus = len(gpu_timings_list)
     vp |-> FALSE,         \* verification_passed
     tp |-> FALSE,         \* timing_passed
     probe |-> FALSE,      \* the node answers the health probe
     ret |-> NoResult,
     cause |-> "none"]

RoundInit ==
    /\ mode = "idle"
    /\ max_workers = 0
    /\ queue = <<>>
    /\ unfinished = 0
    /\ retry_counts = [n \in Nodes |-> 0]
    /\ results = [n \in Nodes |-> NoResult]
    /\ pog_stats = [n \in Nodes |-> "none"]
    /\ wpc = [w \in Workers |-> "off"]
    /\ waxon = [w \in Workers |-> 0]
    /\ wcause = [w \in Workers |-> "none"]
    /\ execQ = <<>>
    /\ thr = [t \in Threads |-> IdleLife]
    /\ loopOwner = 0
    /\ sthr = [n \in Nodes |-> IdleLife]
    /\ sdone = {}
    /\ penalized = {}
    /\ attempts = [n \in Nodes |-> 0]
    /\ resultsFrom = [n \in Nodes |-> [vp |-> FALSE, tp |-> FALSE]]

SybilVars == <<sthr, sdone, penalized>>

(***************************************************************************)
(* Sequence of the members of a set of nodes in increasing uid order.      *)
(***************************************************************************)
RECURSIVE SeqOfSet(_)
SeqOfSet(S) ==
    IF S = {} THEN <<>>
    ELSE LET m == CHOOSE x \in S : \A y \in S : x <= y
         IN <<m>> \o SeqOfSet(S \ {m})

\* min((cpu_cores + 4) * 4, num_workers): the first term is at least 20, above
\* every ceiling of this model.
safe_max_workers(num_workers) == num_workers

(***************************************************************************)
(* proof_of_gpu up to the creation of the workers: the queue holds the     *)
(* queryable nodes that are not allocated, the workers are started.        *)
(***************************************************************************)
StartLegacy(S, m) ==
    /\ mode = "idle"
    /\ mode' = "legacy"
    /\ max_workers' = m
    /\ queue' = SeqOfSet(S)
    /\ unfinished' = Cardinality(S)
    /\ results' = [n \in Nodes |-> NoResult]
    /\ wpc' = [w \in Workers |-> IF w <= safe_max_workers(m) THEN "get" ELSE "off"]
    /\ UNCHANGED <<retry_counts, pog_stats, waxon, wcause, execQ, thr, loopOwner,
                   attempts, resultsFrom,
                   SybilVars>>

(***************************************************************************)
(* worker(): bookkeeping of a failed or timed-out attempt (the two except  *)
(* branches and the finally of the worker loop).                           *)
(***************************************************************************)
RetryPath_offByOne(w, cause) ==
    LET n == waxon[w]
        c == retry_counts[n] + 1
    IN /\ retry_counts' = [retry_counts EXCEPT ![n] = c]
       /\ IF c <= RetryLimit
          THEN /\ wpc' = [wpc EXCEPT ![w] = "sleep"]
               /\ wcause' = [wcause EXCEPT ![w] = cause]
               /\ UNCHANGED <<pog_stats, unfinished, waxon>>
          ELSE /\ pog_stats' = [pog_stats EXCEPT ![n] = "null"]
               /\ unfinished' = unfinished - 1
               /\ wpc' = [wpc EXCEPT ![w] = "get"]
               /\ waxon' = [waxon EXCEPT ![w] = 0]
               /\ UNCHANGED wcause

\* task_done() before the sleep instead of after the put
RetryPath_doneBeforeSleep(w, cause) ==
    LET n == waxon[w]
        c == retry_counts[n] + 1
    IN /\ retry_counts' = [retry_counts EXCEPT ![n] = c]
       /\ unfinished' = unfinished - 1
       /\ IF c < RetryLimit
          THEN /\ wpc' = [wpc EXCEPT ![w] = "sleep"]
               /\ wcause' = [wcause EXCEPT ![w] = cause]
               /\ UNCHANGED <<pog_stats, waxon>>
          ELSE /\ pog_stats' = [pog_stats EXCEPT ![n] = "null"]
               /\ wpc' = [wpc EXCEPT ![w] = "get"]
               /\ waxon' = [waxon EXCEPT ![w] = 0]
               /\ UNCHANGED wcause

RetryPath(w, cause) ==
    LET n == waxon[w]
        c == retry_counts[n] + 1
    IN /\ retry_counts' = [retry_counts EXCEPT ![n] = c]
       /\ IF c < RetryLimit
          THEN /\ wpc' = [wpc EXCEPT ![w] = "sleep"]
               /\ wcause' = [wcause EXCEPT ![w] = cause]
               /\ UNCHANGED <<pog_stats, unfinished, waxon>>
          ELSE /\ pog_stats' = [pog_stats EXCEPT ![n] = "null"]
               /\ unfinished' = unfinished - 1
               /\ wpc' = [wpc EXCEPT ![w] = "get"]
               /\ waxon' = [waxon EXCEPT ![w] = 0]
               /\ UNCHANGED wcause

(***************************************************************************)
(* worker(): axon = await queue.get(), then the test is submitted to the   *)
(* executor under asyncio.wait_for.                                        *)
(***************************************************************************)
WorkerGet(w) ==
    /\ mode = "legacy"
    /\ wpc[w] = "get"
    /\ \A u \in Workers : wpc[u] = "get" => w <= u
    /\ loopOwner = 0
    /\ queue # <<>>
    /\ waxon' = [waxon EXCEPT ![w] = Head(queue)]
    /\ queue' = Tail(queue)
    /\ attempts' = [attempts EXCEPT ![Head(queue)] = @ + 1]
    /\ execQ' = Append(execQ, w)
    /\ wpc' = [wpc EXCEPT ![w] = "wait"]
    /\ UNCHANGED <<mode, max_workers, unfinished, retry_counts, results, pog_stats, wcause, thr,
                   loopOwner, resultsFrom,
                   SybilVars>>

(***************************************************************************)
(* An idle thread of self.executor takes the next work item and runs       *)
(* run_test_miner_gpu, which schedules test_miner_gpu on the event loop    *)
(* and blocks on its result.                                               *)
(***************************************************************************)
ThreadPick(t) ==
    /\ t <= safe_max_workers(max_workers)
    /\ thr[t].pc = "idle"
    /\ \A u \in Threads : thr[u].pc = "idle" => t <= u
    /\ execQ # <<>>
    /\ thr' = [thr EXCEPT ![t] = [IdleLife EXCEPT !.pc = "allocating",
                                                  !.node = waxon[Head(execQ)],
                                                  !.owner = Head(execQ)]]
    /\ execQ' = Tail(execQ)
    /\ UNCHANGED <<mode, max_workers, queue, unfinished, retry_counts, results, pog_stats, wpc,
                   waxon, wcause, loopOwner, attempts, resultsFrom,
                   SybilVars>>

(***************************************************************************)
(* worker(): the branches on the tuple returned by test_miner_gpu.         *)
(***************************************************************************)
WorkerResult(w) ==
    /\ wpc[w] = "wait"
    /\ loopOwner = 0
    /\ \E t \in Threads :
        /\ thr[t].owner = w
        /\ thr[t].pc = "done"
        /\ thr' = [thr EXCEPT ![t] = IdleLife]
        /\ LET r == thr[t].ret
               n == waxon[w]
           IN IF r.name # "None" /\ r.n > 0
              THEN /\ results' = [results EXCEPT ![n] = r]
                   /\ resultsFrom' = [resultsFrom EXCEPT
                                        ![n] = [vp |-> thr[t].vp, tp |-> thr[t].tp]]
                   /\ pog_stats' = [pog_stats EXCEPT ![n] = "gpu"]
                   /\ unfinished' = unfinished - 1
                   /\ wpc' = [wpc EXCEPT ![w] = "get"]
                   /\ waxon' = [waxon EXCEPT ![w] = 0]
                   /\ UNCHANGED <<retry_counts, wcause>>
              ELSE IF r.name = "None" /\ r.n = -1
              THEN /\ pog_stats' = [pog_stats EXCEPT ![n] = "null"]
                   /\ unfinished' = unfinished - 1
                   /\ wpc' = [wpc EXCEPT ![w] = "get"]
                   /\ waxon' = [waxon EXCEPT ![w] = 0]
                   /\ UNCHANGED <<retry_counts, wcause, results, resultsFrom>>
              ELSE /\ RetryPath(w, thr[t].cause)
                   /\ UNCHANGED <<results, resultsFrom>>
    /\ UNCHANGED <<mode, max_workers, queue, execQ, loopOwner, attempts,
                   SybilVars>>

\* The lifecycle of a started work item after its wait_for has expired.
Unawaited(l) ==
    [l EXCEPT !.owner = 0, !.ret = NoResult, !.cause = "none", !.vp = FALSE, !.tp = FALSE]

(***************************************************************************)
(* worker(): asyncio.wait_for expires.  A work item the executor has not   *)
(* started is cancelled; a started one cannot be, and its coroutine keeps  *)
(* running without anyone waiting for it.                                  *)
(***************************************************************************)
WorkerTimeout(w) ==
    /\ wpc[w] = "wait"
    /\ loopOwner = 0
    /\ \/ /\ \E i \in 1..Len(execQ) : execQ[i] = w
          /\ execQ' = SelectSeq(execQ, LAMBDA x : x # w)
          /\ UNCHANGED thr
       \/ /\ \E t \in Threads :
               /\ thr[t].owner = w
               /\ thr[t].pc # "done"
               /\ thr' = [thr EXCEPT ![t] = Unawaited(@)]
          /\ UNCHANGED execQ
    /\ RetryPath(w, "timeout")
    /\ UNCHANGED <<mode, max_workers, queue, results, loopOwner, attempts, resultsFrom,
                   SybilVars>>

(***************************************************************************)
(* worker(): after asyncio.sleep(retry_interval): queue.put(axon), then    *)
(* the finally clause's queue.task_done().                                 *)
(***************************************************************************)
\* queue.put(axon) without the finally clause's queue.task_done()
WorkerRequeue_noTaskDone(w) ==
    /\ wpc[w] = "sleep"
    /\ loopOwner = 0
    /\ queue' = Append(queue, waxon[w])
    /\ unfinished' = unfinished + 1
    /\ wpc' = [wpc EXCEPT ![w] = "get"]
    /\ waxon' = [waxon EXCEPT ![w] = 0]
    /\ wcause' = [wcause EXCEPT ![w] = "none"]
    /\ UNCHANGED <<mode, max_workers, retry_counts, results, pog_stats, execQ, thr,
                   loopOwner, attempts, resultsFrom,
                   SybilVars>>

WorkerRequeue(w) ==
    /\ wpc[w] = "sleep"
    /\ loopOwner = 0
    /\ queue' = Append(queue, waxon[w])
    /\ wpc' = [wpc EXCEPT ![w] = "get"]
    /\ waxon' = [waxon EXCEPT ![w] = 0]
    /\ wcause' = [wcause EXCEPT ![w] = "none"]
    /\ UNCHANGED <<mode, max_workers, unfinished, retry_counts, results, pog_stats, execQ, thr,
                   loopOwner, attempts, resultsFrom,
                   SybilVars>>

(***************************************************************************)
(* A thread whose lifecycle nobody waits for any more returns to the pool. *)
(***************************************************************************)
ThreadRelease(t) ==
    /\ thr[t].pc = "done"
    /\ thr[t].owner = 0
    /\ thr' = [thr EXCEPT ![t] = IdleLife]
    /\ UNCHANGED <<mode, max_workers, queue, unfinished, retry_counts, results, pog_stats, wpc,
                   waxon, wcause, execQ, loopOwner, attempts, resultsFrom,
                   SybilVars>>

(***************************************************************************)
(* proof_of_gpu: queue.join() returns, the workers are cancelled and the   *)
(* results are returned.                                                   *)
(***************************************************************************)
LegacyJoin ==
    /\ mode = "legacy"
    /\ loopOwner = 0
    /\ unfinished = 0
    /\ mode' = "done"
    /\ wpc' = [w \in Workers |-> IF wpc[w] = "off" THEN "off" ELSE "cancelled"]
    /\ UNCHANGED <<max_workers, queue, unfinished, retry_counts, results, pog_stats, waxon, wcause,
                   execQ, thr, loopOwner, attempts, resultsFrom,
                   SybilVars>>

(***************************************************************************)
(* test_miner_gpu.  The coroutine runs on the event loop: it yields the    *)
(* loop only at its awaits (allocate_miner, the publication of the result  *)
(* event, deallocate_miner); the SSH steps between them block the loop.    *)
(***************************************************************************)
LifeVars == <<mode, max_workers, queue, unfinished, retry_counts, results, pog_stats, wpc, waxon,
              wcause, execQ, attempts, resultsFrom, SybilVars>>

\* An exception raised in the try body: control is at the except clause.
Raised(l, why) == [l EXCEPT !.pc = "raising", !.cause = why]

\* What is left of the locals once the blocking section is over: the tuple
\* to return.  The tuple of a coroutine whose wait_for has expired is read by
\* nobody (run_test_miner_gpu's future was cancelled).
AtAwait(l, r, why) ==
    IF l.owner = 0
    THEN [IdleLife EXCEPT !.pc = "publishing", !.node = l.node, !.alloc = l.alloc]
    ELSE [l EXCEPT !.pc = "publishing", !.ret = r, !.cause = why, !.invoked = {},
                   !.mismatch = FALSE, !.roots = FALSE, !.idx = FALSE, !.ng = 0]

\* Step 1: allocate_miner returns.  Without an allocation the function
\* returns (hotkey, None, 0) at once; the finally clause has nothing to release.
LifeAllocated(t, ok) ==
    /\ thr[t].pc = "allocating"
    /\ loopOwner = 0
    /\ IF ok
       THEN /\ thr' = [thr EXCEPT ![t] = [@ EXCEPT !.pc = "allocated", !.alloc = TRUE]]
            /\ loopOwner' = t
       ELSE /\ thr' = [thr EXCEPT ![t] = [AtAwait(@, RetFail, "allocation")
                                            EXCEPT !.pc = "done"]]
            /\ UNCHANGED loopOwner
    /\ UNCHANGED LifeVars

\* Step 2: ssh_client.connect.
LifeConnect(t, ok) ==
    /\ thr[t].pc = "allocated"
    /\ loopOwner = t
    /\ thr' = [thr EXCEPT ![t] = IF ok THEN [@ EXCEPT !.pc = "connected"]
                                       ELSE Raised(@, "protocol")]
    /\ UNCHANGED <<loopOwner, LifeVars>>

\* Step 3: compute_script_hash, send_script_and_request_hash, comparison.
LifeHashCheck(t, out) ==
    /\ thr[t].pc = "connected"
    /\ loopOwner = t
    /\ thr' = [thr EXCEPT ![t] =
                 CASE out = "match" -> [@ EXCEPT !.pc = "hash_ok"]
                   [] out = "mismatch" -> [Raised(@, "integrity") EXCEPT !.mismatch = TRUE]
                   [] out = "error" -> Raised(@, "protocol")]
    /\ UNCHANGED <<loopOwner, LifeVars>>

\* Step 4: get_remote_gpu_info; no GPU reported raises.
LifeGpuInfo(t, ok) ==
    /\ thr[t].pc = "hash_ok"
    /\ loopOwner = t
    /\ thr' = [thr EXCEPT ![t] =
                 [(IF ok THEN [@ EXCEPT !.pc = "info_ok"] ELSE Raised(@, "protocol"))
                    EXCEPT !.invoked = @ \cup {"gpu_info"}]]
    /\ UNCHANGED <<loopOwner, LifeVars>>

\* Step 5: benchmark mode, parse_benchmark_output, identify_gpu.
LifeBenchmark(t, ok) ==
    /\ thr[t].pc = "info_ok"
    /\ loopOwner = t
    /\ thr' = [thr EXCEPT ![t] =
                 [(IF ok THEN [@ EXCEPT !.pc = "benchmarked"] ELSE Raised(@, "protocol"))
                    EXCEPT !.invoked = @ \cup {"benchmark"}]]
    /\ UNCHANGED <<loopOwner, LifeVars>>

\* Step 6: the seeds are sent; compute mode runs; parse_merkle_output gives
\* the root hashes and the g timings; timing_passed is computed.
LifeCompute(t, ok, g, timing) ==
    /\ thr[t].pc = "benchmarked"
    /\ loopOwner = t
    /\ thr' = [thr EXCEPT ![t] =
                 IF ok
                 THEN [@ EXCEPT !.pc = "computed", !.invoked = @ \cup {"compute"},
                                !.roots = TRUE, !.ng = g, !.tp = timing]
                 ELSE [Raised(@, "protocol") EXCEPT !.invoked = @ \cup {"compute"}]]
    /\ UNCHANGED <<loopOwner, LifeVars>>

\* Step 7: the challenge indices are drawn and sent.
LifeChallenge_early(t, ok) ==
    /\ thr[t].pc \in {"benchmarked", "computed"}
    /\ ~thr[t].idx
    /\ loopOwner = t
    /\ thr' = [thr EXCEPT ![t].idx = TRUE]
    /\ UNCHANGED <<loopOwner, LifeVars>>

LifeChallenge(t, ok) ==
    /\ thr[t].pc = "computed"
    /\ loopOwner = t
    /\ thr' = [thr EXCEPT ![t] = IF ok THEN [@ EXCEPT !.pc = "challenged", !.idx = TRUE]
                                       ELSE Raised(@, "protocol")]
    /\ UNCHANGED <<loopOwner, LifeVars>>

\* Step 7: proof mode runs and the responses are downloaded.
LifeProof(t, ok) ==
    /\ thr[t].pc = "challenged"
    /\ loopOwner = t
    /\ thr' = [thr EXCEPT ![t] =
                 [(IF ok THEN [@ EXCEPT !.pc = "proved"] ELSE Raised(@, "protocol"))
                    EXCEPT !.invoked = @ \cup {"proof"}]]
    /\ UNCHANGED <<loopOwner, LifeVars>>

\* Step 7: verify_responses returns or raises (a response that is missing).
LifeVerify(t, out) ==
    /\ thr[t].pc = "proved"
    /\ loopOwner = t
    /\ thr' = [thr EXCEPT ![t] =
                 CASE out = "pass" -> [@ EXCEPT !.pc = "verified", !.vp = TRUE]
                   [] out = "fail" -> [@ EXCEPT !.pc = "verified", !.vp = FALSE]
                   [] out = "error" -> Raised(@, "protocol")]
    /\ UNCHANGED <<loopOwner, LifeVars>>

\* The branch on verification_passed and timing_passed; on success the
\* health check runs (Step 8).  Each branch then awaits the publication of
\* its result event.
LifeDecide_either(t, health) ==
    /\ thr[t].pc = "verified"
    /\ loopOwner = t
    /\ health = "ok"
    /\ thr' = [thr EXCEPT ![t] =
                 IF thr[t].vp \/ thr[t].tp
                 THEN AtAwait(@, RetSuccess(thr[t].ng), "none")
                 ELSE AtAwait(@, RetFail, "verification")]
    /\ loopOwner' = 0
    /\ UNCHANGED LifeVars

\* Step 8's call perform_health_check(axon, miner_info): the function is
\* defined as perform_health_check(axon, miner_info, config_data), so the
\* call raises TypeError before any step of the probe runs, whatever the
\* node would have answered; the except clause around it catches the error.
health_check_call(health) == "error"

LifeDecide(t, health) ==
    /\ thr[t].pc = "verified"
    /\ loopOwner = t
    /\ IF thr[t].vp /\ thr[t].tp
       THEN thr' = [thr EXCEPT ![t] =
                      IF health_check_call(health) = "ok"
                      THEN [AtAwait(@, RetSuccess(thr[t].ng), "none")
                              EXCEPT !.probe = (thr[t].owner # 0 /\ health = "ok")]
                      ELSE [AtAwait(@, RetHealth, "health")
                              EXCEPT !.probe = (thr[t].owner # 0 /\ health = "ok")]]
       ELSE /\ health = "ok"
            /\ thr' = [thr EXCEPT ![t] = AtAwait(@, RetFail, "verification")]
    /\ loopOwner' = 0
    /\ UNCHANGED LifeVars

\* The except clause: the error event is published and (hotkey, None, 0)
\* is returned.
LifeExcept(t) ==
    /\ thr[t].pc = "raising"
    /\ loopOwner = t
    /\ thr' = [thr EXCEPT ![t] = AtAwait(@, RetFail, thr[t].cause)]
    /\ loopOwner' = 0
    /\ UNCHANGED LifeVars

\* The finally clause once the result event is published: the SSH client is
\* closed and, if the allocation had succeeded, deallocate_miner is awaited.
LifeFinally_successOnly(t) ==
    /\ thr[t].pc = "publishing"
    /\ loopOwner = 0
    /\ thr' = [thr EXCEPT ![t] =
                 IF thr[t].alloc /\ thr[t].ret.n > 0
                 THEN [@ EXCEPT !.pc = "deallocating", !.dealloc = TRUE]
                 ELSE [@ EXCEPT !.pc = "done"]]
    /\ UNCHANGED <<loopOwner, LifeVars>>

LifeFinally(t) ==
    /\ thr[t].pc = "publishing"
    /\ loopOwner = 0
    /\ thr' = [thr EXCEPT ![t] =
                 IF thr[t].alloc
                 THEN [@ EXCEPT !.pc = "deallocating", !.dealloc = TRUE]
                 ELSE [@ EXCEPT !.pc = "done"]]
    /\ UNCHANGED <<loopOwner, LifeVars>>

\* deallocate_miner returns (it gives up after max_retries) and the
\* coroutine returns its tuple.
LifeDeallocated(t) ==
    /\ thr[t].pc = "deallocating"
    /\ loopOwner = 0
    /\ thr' = [thr EXCEPT ![t].pc = "done"]
    /\ UNCHANGED <<loopOwner, LifeVars>>

Outcomes == {"match", "mismatch", "error"}
Verdicts == {"pass", "fail", "error"}
Healths == {"ok", "fail", "error"}

LegacyNext ==
    \/ \E S \in SUBSET Nodes, m \in Workers : StartLegacy(S, m) /\ UNCHANGED exceptRound
    \/ \E w \in Workers : WorkerGet(w) /\ UNCHANGED exceptRound
    \/ \E t \in Threads : ThreadPick(t) /\ UNCHANGED exceptRound
    \/ \E w \in Workers : WorkerResult(w) /\ UNCHANGED exceptRound
    \/ \E w \in Workers : WorkerTimeout(w) /\ UNCHANGED exceptRound
    \/ \E w \in Workers : WorkerRequeue(w) /\ UNCHANGED exceptRound
    \/ \E t \in Threads : ThreadRelease(t) /\ UNCHANGED exceptRound
    \/ LegacyJoin /\ UNCHANGED exceptRound
    \/ \E t \in Threads, ok \in BOOLEAN : LifeAllocated(t, ok) /\ UNCHANGED exceptRound
    \/ \E t \in Threads, ok \in BOOLEAN : LifeConnect(t, ok) /\ UNCHANGED exceptRound
    \/ \E t \in Threads, out \in Outcomes : LifeHashCheck(t, out) /\ UNCHANGED exceptRound
    \/ \E t \in Threads, ok \in BOOLEAN : LifeGpuInfo(t, ok) /\ UNCHANGED exceptRound
    \/ \E t \in Threads, ok \in BOOLEAN : LifeBenchmark(t, ok) /\ UNCHANGED exceptRound
    \/ \E t \in Threads, ok \in BOOLEAN, g \in GpuCounts, timing \in BOOLEAN :
          LifeCompute(t, ok, g, timing) /\ UNCHANGED exceptRound
    \/ \E t \in Threads, ok \in BOOLEAN : LifeChallenge(t, ok) /\ UNCHANGED exceptRound
    \/ \E t \in Threads, ok \in BOOLEAN : LifeProof(t, ok) /\ UNCHANGED exceptRound
    \/ \E t \in Threads, out \in Verdicts : LifeVerify(t, out) /\ UNCHANGED exceptRound
    \/ \E t \in Threads, health \in Healths : LifeDecide(t, health) /\ UNCHANGED exceptRound
    \/ \E t \in Threads : LifeExcept(t) /\ UNCHANGED exceptRound
    \/ \E t \in Threads : LifeFinally(t) /\ UNCHANGED exceptRound
    \/ \E t \in Threads : LifeDeallocated(t) /\ UNCHANGED exceptRound

(***************************************************************************)
(* proof_of_gpu_sybil.                                                     *)
(***************************************************************************)
LegacyVars == <<queue, unfinished, retry_counts, results, pog_stats, wpc, waxon,
                wcause, execQ, thr, attempts, resultsFrom>>

\* The slot is computed; the round is skipped when the slot is almost over,
\* otherwise the jitter sleep begins.
SybilStart(skip, m) ==
    /\ mode = "idle"
    /\ mode' = IF skip THEN "done" ELSE "sybil_sleep"
    /\ max_workers' = m
    /\ UNCHANGED <<loopOwner, LegacyVars, SybilVars>>

\* The nodes S that are queryable and not allocated are challenged: one pool
\* thread per node runs _run_sybil_benchmark.  An empty S makes the pool's
\* constructor raise, which ends the round in the outer except clause.
SybilLaunch(S) ==
    /\ mode = "sybil_sleep"
    /\ IF S = {}
       THEN /\ mode' = "done"
            /\ UNCHANGED sthr
       ELSE /\ mode' = "sybil_wait"
            /\ sthr' = [n \in Nodes |-> IF n \in S
                                        THEN [IdleLife EXCEPT !.pc = "allocating", !.node = n]
                                        ELSE IdleLife]
    /\ UNCHANGED <<max_workers, loopOwner, sdone, penalized, LegacyVars>>

SybilLifeVars == <<mode, max_workers, loopOwner, sdone, penalized, LegacyVars>>

\* The except clause and the tuple (uid, hotkey, False, None, 0); the
\* finally clause schedules deallocate_miner if the allocation had succeeded.
SybilReturn(l, passed) ==
    [l EXCEPT !.pc = "returned", !.vp = passed, !.dealloc = l.alloc]

\* 1) allocation: allocate_miner runs on the event loop, the thread blocks
\* on fut.result().
SybilAllocated(n, ok) ==
    /\ sthr[n].pc = "allocating"
    /\ loopOwner = 0
    /\ sthr' = [sthr EXCEPT ![n] = IF ok THEN [@ EXCEPT !.pc = "allocated", !.alloc = TRUE]
                                         ELSE SybilReturn(@, FALSE)]
    /\ UNCHANGED SybilLifeVars

\* 2) SSH connect.
SybilConnect(n, ok) ==
    /\ sthr[n].pc = "allocated"
    /\ sthr' = [sthr EXCEPT ![n] = IF ok THEN [@ EXCEPT !.pc = "connected"]
                                         ELSE SybilReturn(@, FALSE)]
    /\ UNCHANGED SybilLifeVars

\* 3) the digest of the remote copy is compared with the local one; when
\* they differ the script is uploaded and the benchmark goes on.
SybilScript(n, out) ==
    /\ sthr[n].pc = "connected"
    /\ sthr' = [sthr EXCEPT ![n] =
                  CASE out = "match" -> [@ EXCEPT !.pc = "script_ok"]
                    [] out = "mismatch" -> [@ EXCEPT !.pc = "script_ok", !.mismatch = TRUE]
                    [] out = "error" -> [SybilReturn(@, FALSE) EXCEPT !.mismatch = TRUE]]
    /\ UNCHANGED SybilLifeVars

\* 4) gpu_info mode; an unknown GPU model returns a failure.
SybilGpuInfo(n, ok) ==
    /\ sthr[n].pc = "script_ok"
    /\ sthr' = [sthr EXCEPT ![n] =
                  [(IF ok THEN [@ EXCEPT !.pc = "info_ok"] ELSE SybilReturn(@, FALSE))
                     EXCEPT !.invoked = @ \cup {"gpu_info"}]]
    /\ UNCHANGED SybilLifeVars

\* 6), 7) the seeds file is written, compute mode runs within the deadline
\* and the roots are parsed.
SybilCompute(n, ok) ==
    /\ sthr[n].pc = "info_ok"
    /\ sthr' = [sthr EXCEPT ![n] =
                  IF ok
                  THEN [@ EXCEPT !.pc = "computed", !.invoked = @ \cup {"compute"},
                                 !.roots = TRUE]
                  ELSE [SybilReturn(@, FALSE) EXCEPT !.invoked = @ \cup {"compute"}]]
    /\ UNCHANGED SybilLifeVars

\* 8) the challenge indices are drawn and written.
SybilChallenge(n, ok) ==
    /\ sthr[n].pc = "computed"
    /\ sthr' = [sthr EXCEPT ![n] = IF ok THEN [@ EXCEPT !.pc = "challenged", !.idx = TRUE]
                                         ELSE SybilReturn(@, FALSE)]
    /\ UNCHANGED SybilLifeVars

\* 9), 10), 11) proof mode, the download of the responses and their
\* verification.
SybilProof(n, out) ==
    /\ sthr[n].pc = "challenged"
    /\ sthr' = [sthr EXCEPT ![n] =
                  [SybilReturn(@, out = "pass") EXCEPT !.invoked = @ \cup {"proof"}]]
    /\ UNCHANGED SybilLifeVars

\* asyncio.wait returns, with every future done or at the timeout; leaving
\* the with block then shuts the pool down, which waits for its threads.
SybilWait ==
    /\ mode = "sybil_wait"
    /\ loopOwner = 0
    /\ sdone' = {n \in Nodes : sthr[n].pc = "returned"}
    /\ mode' = "sybil_shutdown"
    /\ loopOwner' = -1
    /\ UNCHANGED <<max_workers, sthr, penalized, LegacyVars>>

\* 5 post-process: the nodes among the done futures that passed are
\* recorded; every on-chain hotkey that did not pass is penalized.
SybilPost ==
    /\ mode = "sybil_shutdown"
    /\ \A n \in Nodes : sthr[n].pc \in {"idle", "returned"}
    /\ LET passed == {n \in sdone : sthr[n].vp}
       IN /\ pog_stats' = [n \in Nodes |-> IF n \in passed THEN "gpu" ELSE pog_stats[n]]
          /\ penalized' = Nodes \ passed
    /\ mode' = "done"
    /\ loopOwner' = 0
    /\ UNCHANGED <<max_workers, sthr, sdone, queue, unfinished, retry_counts, results, wpc,
                   waxon,
                   wcause, execQ, thr, attempts, resultsFrom>>

SybilNext ==
    \/ \E skip \in BOOLEAN, m \in Workers : SybilStart(skip, m) /\ UNCHANGED exceptRound
    \/ \E S \in SUBSET Nodes : SybilLaunch(S) /\ UNCHANGED exceptRound
    \/ \E n \in Nodes, ok \in BOOLEAN : SybilAllocated(n, ok) /\ UNCHANGED exceptRound
    \/ \E n \in Nodes, ok \in BOOLEAN : SybilConnect(n, ok) /\ UNCHANGED exceptRound
    \/ \E n \in Nodes, out \in Outcomes : SybilScript(n, out) /\ UNCHANGED exceptRound
    \/ \E n \in Nodes, ok \in BOOLEAN : SybilGpuInfo(n, ok) /\ UNCHANGED exceptRound
    \/ \E n \in Nodes, ok \in BOOLEAN : SybilCompute(n, ok) /\ UNCHANGED exceptRound
    \/ \E n \in Nodes, ok \in BOOLEAN : SybilChallenge(n, ok) /\ UNCHANGED exceptRound
    \/ \E n \in Nodes, out \in Verdicts : SybilProof(n, out) /\ UNCHANGED exceptRound
    \/ SybilWait /\ UNCHANGED exceptRound
    \/ SybilPost /\ UNCHANGED exceptRound

(***************************************************************************)
(* 32-bit words.  A word is the set of the positions of its one bits, so   *)
(* that every operation is exact modulo 2^32.                              *)
(***************************************************************************)
WordBits == 32

BitPos == 0..(WordBits - 1)
MASK32 == BitPos
MIX32 == 73244475   \* 0x45D9F3B

Pow2(k) == 2^k

\* the word of a natural number below 2^31
Word(k) == {b \in 0..(WordBits - 2) : (k \div Pow2(b)) % 2 = 1}

\* the number of the bits 0..b of a word
RECURSIVE NumFrom(_, _)
NumFrom(w, b) ==
    IF b < 0 THEN 0 ELSE (IF b \in w THEN Pow2(b) ELSE 0) + NumFrom(w, b - 1)

Xor(a, b) == {p \in (a \ b) \cup (b \ a) : TRUE}
Shr(a, k) == {b - k : b \in {c \in a : c >= k}}

\* the two 16-bit halves of a word, as numbers, and the word of two halves
Half == Pow2(16)
Lo16(w) == NumFrom(w, 15)
Hi16(w) == NumFrom(Shr(w, 16), 15)
Join16(hi, lo) ==
    {b \in BitPos : IF b < 16 THEN (lo \div Pow2(b)) % 2 = 1
                    ELSE (hi \div Pow2(b - 16)) % 2 = 1}

\* (a + b) & MASK32
AddHalves(hi, lo) == Join16((hi + (lo \div Half)) % Half, lo % Half)
Add32(a, b) == AddHalves(Hi16(a) + Hi16(b), Lo16(a) + Lo16(b))

\* (x * y) mod 2^16 for x, y below 2^16, without leaving 31 bits
MulMod16(x, y) == ((x % 256) * y + (((x \div 256) * y) % 256) * 256) % Half

\* the low 32 bits of wl * ml + (cross mod 2^16) * 2^16, wl and ml below 2^16:
\* p0 and p1 are the products of ml with the low and the high byte of wl
MulParts(p0, p1, cross) ==
    Join16(((p0 + (p1 % 256) * 256) \div Half + (p1 \div 256) + cross) % Half,
           (p0 + (p1 % 256) * 256) % Half)

MulHalves(wh, wl, mh, ml) ==
    MulParts((wl % 256) * ml, (wl \div 256) * ml, MulMod16(wh, ml) + MulMod16(wl, mh))

\* (w * m) & MASK32 for a number m below 2^31
MulBy(w, m) == MulHalves(Hi16(w), Lo16(w), m \div Half, m % Half)

\* x ^= (x << k) & MASK32 and x ^= x >> k
XorShl(x, k) == {p \in BitPos : (p \in x) # ((p - k) \in x)}
XorShr(x, k) == {p \in BitPos : (p \in x) # ((p + k) \in x)}

xs32(x) == XorShl(XorShr(XorShl(x, 13), 17), 5)

RECURSIVE xs32Times(_, _)
xs32Times(s, k) ==
    IF k = 0 \/ s = {} THEN s   \* zero is a fixed point of xs32
    ELSE xs32Times(xs32(s), k - 1)

Rounds == 10

\* the generator state after the ten rounds
prngState(seed, i, j) == xs32Times(Add32(Add32(seed, Word(i)), Word(j)), Rounds)

\* 64-bit integers of the node's tensors, as sets of bit positions; the
\* sums below stay under 2^34
WideBits == 64
WidePos == 0..(WideBits - 1)
\* a + b for a below 2^33 and b below 2^32, without reduction
AddWide(a, b) ==
    LET lo == Lo16(a) + Lo16(b)
        hi == Hi16(a \cap MASK32) + Hi16(b) + (lo \div Half)
        top == (IF 32 \in a THEN 1 ELSE 0) + (hi \div Half)
    IN Join16(hi % Half, lo % Half) \cup {32 + b2 : b2 \in {c \in 0..1 : (top \div Pow2(c)) % 2 = 1}}
\* x &= MASK32
Mask(x) == x \cap MASK32
\* one round on a 64-bit integer without the leading x &= MASK32
xs32_noLeadingMask(x) ==
    LET a == {p \in WidePos : (p \in x) # (p \in MASK32 /\ (p - 13) \in x)}
        b == {p \in WidePos : (p \in a) # ((p + 17) \in a)}
        c == {p \in WidePos : (p \in b) # (p \in MASK32 /\ (p - 5) \in b)}
    IN Mask(c)
\* the node's xs32 on a 64-bit integer
xs32_wide(x) == xs32(Mask(x))
RECURSIVE RoundsFrom(_, _)
RoundsFrom(s, k) ==
    IF k = 0 \/ s = {} THEN s   \* zero is a fixed point of xs32
    ELSE RoundsFrom(xs32_wide(s), k - 1)
\* the node's rounds without the leading mask of xs32
RECURSIVE RoundsFrom_noLeadingMask(_, _)
RoundsFrom_noLeadingMask(s, k) ==
    IF k = 0 \/ s = {} THEN s
    ELSE RoundsFrom_noLeadingMask(xs32_noLeadingMask(s), k - 1)
gen_state_noLeadingMask(seed, i, j) ==
    RoundsFrom_noLeadingMask(AddWide(AddWide(Mask(seed), Mask(Word(i))), Word(j)), Rounds)
\* s of gen_matrix for the cell (i, j) after the ten rounds
gen_state(seed, i, j) ==
    RoundsFrom(AddWide(AddWide(Mask(seed), Mask(Word(i))), Word(j)), Rounds)
\* s / float(MASK32) on the grid of 2^-ValBits, rounded down: the top ValBits
\* bits of s, and one (2^ValBits) for s = MASK32
Unit(s) == IF s = MASK32 THEN Pow2(ValBits) ELSE NumFrom(Shr(s, WordBits - ValBits), ValBits - 1)

prng(seed, i, j) == Unit(prngState(seed, i, j))

(***************************************************************************)
(* SHA-256 is taken to be collision free: a digest is its input.  A leaf   *)
(* hashes the four bytes of one word, an inner node the sixty-four bytes   *)
(* of two digests.                                                         *)
(***************************************************************************)
sha256(input) == [sha |-> input]

\* the float32 bit pattern of a matrix entry; entries are multiples of
\* 2^-(2*ValBits) and the pattern is the word of the multiple
FloatBits(v) == Word(v)

\* an array or a list of m elements, evaluated once; arrays are indexed from 1
\* here and from 0 in the program
List(f, m) == SubSeq(f, 1, m)

(***************************************************************************)
(* The benchmark program (miner_script_m_merkletree.py).                   *)
(***************************************************************************)
gen_matrix(seed, n) ==
    List([i \in 1..n |-> List([j \in 1..n |->
        Unit(gen_state(seed, i - 1, j - 1))], n)], n)

RECURSIVE DotFrom(_, _, _, _, _)
DotFrom(X, Y, i, j, k) ==
    IF k < 1 THEN 0 ELSE X[i][k] * Y[k][j] + DotFrom(X, Y, i, j, k - 1)

matmul(X, Y, n) ==
    List([i \in 1..n |-> List([j \in 1..n |-> DotFrom(X, Y, i, j, n)], n)], n)

\* the two products stacked in the other order
cat_reversed(C1, C2) == C2 \o C1

\* torch.cat((C1, C2)): the rows of C1, then the rows of C2
cat(C1, C2) == C1 \o C2

\* (mat.view(torch.int32) & MASK32).to(torch.int64): the mask does not fit
\* int32 and leaves the signed word as it is, the promotion extends its sign
ToInt64(word) == IF (WordBits - 1) \in word THEN word \cup (WordBits..(WideBits - 1)) ELSE word

\* an odd level is padded with its first word
RECURSIVE FoldGpu_padFirst(_)
FoldGpu_padFirst(w) ==
    IF Len(w) <= 1 THEN w[1]
    ELSE LET p == IF Len(w) % 2 = 1 THEN Append(w, w[1]) ELSE w
             x == List([k \in 1..(Len(p) \div 2) |->
                           XorShr(MulBy(Mask(Xor(p[2 * k - 1], p[2 * k])), MIX32), 16)],
                       Len(p) \div 2)
         IN FoldGpu_padFirst(x)

\* the loop on the int64 words; (w * MIX32) & MASK32 keeps the low word of
\* the product, which is the product of the low word
RECURSIVE FoldGpu(_)
FoldGpu(w) ==
    IF Len(w) <= 1 THEN w[1]
    ELSE LET p == IF Len(w) % 2 = 1 THEN Append(w, w[Len(w)]) ELSE w
             x == List([k \in 1..(Len(p) \div 2) |->
                           XorShr(MulBy(Mask(Xor(p[2 * k - 1], p[2 * k])), MIX32), 16)],
                       Len(p) \div 2)
         IN FoldGpu(x)

\* row_hash_gpu on the words of a row; .to(torch.int32) and as_uint32_py
\* keep the low word
HashGpu(words) == Mask(FoldGpu(List([k \in 1..Len(words) |-> ToInt64(words[k])], Len(words))))

row_hash_gpu(row) == HashGpu(List([k \in 1..Len(row) |-> FloatBits(row[k])], Len(row)))

RECURSIVE TreeFrom(_)
TreeFrom(lvl) ==
    IF Len(lvl) <= 1 THEN <<lvl>>
    ELSE LET p == IF Len(lvl) % 2 = 1 THEN Append(lvl, lvl[Len(lvl)]) ELSE lvl
             nxt == List([k \in 1..(Len(p) \div 2) |->
                             sha256(<<p[2 * k - 1], p[2 * k]>>)], Len(p) \div 2)
         IN <<lvl>> \o TreeFrom(nxt)

RECURSIVE Join(_)
Join(levels) == IF levels = <<>> THEN <<>> ELSE Head(levels) \o Join(Tail(levels))

\* hashes: the sequence of the row digests; gives the root and the node blob
RootAndFlat(tree) == [root |-> tree[Len(tree)][1], flat |-> Join(tree)]

build_merkle_cpu(hashes) ==
    RootAndFlat(TreeFrom(List([k \in 1..Len(hashes) |-> sha256(<<hashes[k]>>)],
                              Len(hashes))))

\* idx ^ 1
Flip(idx) == IF idx % 2 = 0 THEN idx + 1 ELSE idx - 1

\* the sibling is never clamped to the node itself
RECURSIVE ProofFrom_noClamp(_, _, _, _)
ProofFrom_noClamp(flat, idx, off, width) ==
    IF width <= 1 THEN <<>>
    ELSE <<flat[off + Flip(idx) + 1]>>
         \o ProofFrom_noClamp(flat, idx \div 2, off + width, (width + 1) \div 2)

RECURSIVE ProofFrom(_, _, _, _)
ProofFrom(flat, idx, off, width) ==
    IF width <= 1 THEN <<>>
    ELSE LET sib == IF Flip(idx) >= width THEN idx ELSE Flip(idx)
         IN <<flat[off + sib + 1]>>
            \o ProofFrom(flat, idx \div 2, off + width, (width + 1) \div 2)

merkle_proof(flat, idx, total) == ProofFrom(flat, idx, 0, total)

\* the phases of gpu_job: "build", "gemm", "hash" and "merkle"
Saved(rows, m) == [root |-> m.root, rows |-> rows, flat |-> m.flat]

Hashed(rows) ==
    Saved(rows, build_merkle_cpu(List([k \in 1..Len(rows) |-> row_hash_gpu(rows[k])],
                                      Len(rows))))

Gemm(A, B, n) == Hashed(cat(matmul(A, B, n), matmul(B, A, n)))

gpu_job(sA, sB, n) == Gemm(gen_matrix(sA, n), gen_matrix(sB, n), n)

\* the response of one slot to its list of (i, j) pairs
run_proof(store, pairs, n) ==
    [rows |-> List([k \in 1..Len(pairs) |-> store.rows[pairs[k][1] + 1]], Len(pairs)),
     proofs |-> List([k \in 1..Len(pairs) |->
                         merkle_proof(store.flat, pairs[k][1], 2 * n)], Len(pairs))]

(***************************************************************************)
(* The verifier (pog.py).                                                  *)
(***************************************************************************)
RECURSIVE FoldNp(_)
FoldNp(words) ==
    IF Len(words) <= 1 THEN words[1]
    ELSE LET padded == IF Len(words) % 2 = 1 THEN Append(words, words[Len(words)])
                       ELSE words
             mixed == List([k \in 1..(Len(padded) \div 2) |->
                               XorShr(MulBy(Xor(padded[2 * k - 1], padded[2 * k]), MIX32),
                                      16)],
                           Len(padded) \div 2)
         IN FoldNp(mixed)

row_hash32_np(row) == FoldNp(List([k \in 1..Len(row) |-> FloatBits(row[k])], Len(row)))

leaf_digest(row) == sha256(<<row_hash32_np(row)>>)

RECURSIVE ClimbFrom(_, _, _, _)
ClimbFrom(computed_hash, proof, idx, k) ==
    IF k > Len(proof) THEN computed_hash
    ELSE ClimbFrom(IF idx % 2 = 0 THEN sha256(<<computed_hash, proof[k]>>)
                   ELSE sha256(<<proof[k], computed_hash>>),
                   proof, idx \div 2, k + 1)

\* the walk takes every node for a left child
verify_merkle_proof_row_leftOnly(row, proof, root_hash, index, total_leaves) ==
    ClimbFrom(leaf_digest(row), proof, 0, 1) = root_hash

verify_merkle_proof_row(row, proof, root_hash, index, total_leaves) ==
    ClimbFrom(leaf_digest(row), proof, index, 1) = root_hash

\* secrets.randbits(32): the seeds are taken in turn from this list
SeedPool == <<Word(111), MASK32, Word(222), Word(0), Word(65537), Word(7)>>

\* prng is a function of its arguments: its values for the seeds of the pool
\* and the indices below MaxN, computed once
PrngTable ==
    List([s \in 1..Len(SeedPool) |->
            List([i \in 1..MaxN |->
                    List([j \in 1..MaxN |-> prng(SeedPool[s], i - 1, j - 1)], MaxN)],
                 MaxN)],
         Len(SeedPool))

PrngOf(seed, i, j) ==
    PrngTable[CHOOSE s \in 1..Len(SeedPool) : SeedPool[s] = seed][i + 1][j + 1]

RECURSIVE SumProducts(_, _, _, _, _)
SumProducts(sX, sY, i, j, k) ==
    IF k < 0 THEN 0
    ELSE PrngOf(sX, i, k) * PrngOf(sY, k, j) + SumProducts(sX, sY, i, j, k - 1)

Expected_firstHalf(s_A, s_B, i, j, n) ==
    IF i < n THEN SumProducts(s_A, s_B, i, j, n - 1)
    ELSE SumProducts(s_A, s_B, i - n, j, n - 1)

\* exp in verify_responses
Expected(s_A, s_B, i, j, n) ==
    IF i < n THEN SumProducts(s_A, s_B, i, j, n - 1)
    ELSE SumProducts(s_B, s_A, i - n, j, n - 1)

Abs(x) == IF x < 0 THEN -x ELSE x

\* np.isclose(a, b, atol=1e-4, rtol=1e-3): |a - b| <= atol + rtol * |b|, on
\* values counted in units of 2^-(2*ValBits)
isclose(a, b) == 10000 * Abs(a - b) <= Pow2(2 * ValBits) + 10 * Abs(b)

NumericOk(response, k, s_A, s_B, i, j, n) ==
    isclose(response.rows[k][j + 1], Expected(s_A, s_B, i, j, n))

MerkleOk(response, k, root_hash, i, n) ==
    verify_merkle_proof_row(response.rows[k], response.proofs[k], root_hash, i, 2 * n)

IndexOk_either(response, k, s, root_hash, pair, n) ==
    \/ NumericOk(response, k, s[1], s[2], pair[1], pair[2], n)
    \/ MerkleOk(response, k, root_hash, pair[1], n)

\* one pass of the loop body: the numeric check, then the Merkle check
IndexOk(response, k, s, root_hash, pair, n) ==
    /\ NumericOk(response, k, s[1], s[2], pair[1], pair[2], n)
    /\ MerkleOk(response, k, root_hash, pair[1], n)

\* the loop over the challenged indices of one slot, left at the first index
\* that fails: TRUE when gpu_failed is set
RECURSIVE gpu_failed(_, _, _, _, _, _)
gpu_failed(s, root_hash, response, gpu_indices, n, k) ==
    IF k > Len(gpu_indices) THEN FALSE
    ELSE IF ~IndexOk(response, k, s, root_hash, gpu_indices[k], n) THEN TRUE
         ELSE gpu_failed(s, root_hash, response, gpu_indices, n, k + 1)

required_passes_floor(num_gpus) ==
    IF num_gpus <= 4 THEN num_gpus ELSE (3 * num_gpus) \div 4

\* num_gpus if num_gpus <= 4 else int(np.ceil(0.75 * num_gpus))
required_passes(num_gpus) ==
    IF num_gpus <= 4 THEN num_gpus ELSE (3 * num_gpus + 3) \div 4

\* root.hex() on the node, bytes.fromhex on the verifier
hex(digest) == [hex |-> digest]
fromhex(text) == text.hex

\* root_hashes, responses and indices are keyed by gpu_id
Verdict(num_gpus, failed) ==
    [failed_gpus |-> failed,
     verification_passed |-> (num_gpus - Cardinality(failed)) >= required_passes(num_gpus)]

verify_responses(sds, roots, resps, idxs, n) ==
    Verdict(Cardinality(DOMAIN roots),
            {gpu_id \in DOMAIN roots :
                gpu_failed(sds[gpu_id], fromhex(roots[gpu_id]), resps[gpu_id],
                           idxs[gpu_id], n, 1)})

(***************************************************************************)
(* One challenge/proof exchange.  The node either runs the benchmark       *)
(* program unmodified or deviates from it on some of its slots.            *)
(***************************************************************************)
SeedShifts == {0, 1}

\* stale: the slot commits to the products of the swapped seed pair
\* nudge: one unit is added to the challenged entry of a returned row
\* forge: 1.0 is added to the challenged entry of a returned row
\* sibling: the first digest of a returned path is replaced
CheatKinds == {"stale", "nudge", "forge", "sibling"}
Honest == [gpus |-> {}, kind |-> "none", at |-> 1]
\* the deviating slots are consecutive ones
Runs(g) == {lo..hi : lo \in 0..(g - 1), hi \in 0..(g - 1)} \ {{}}
Cheats(g) == {Honest} \cup [gpus : Runs(g), kind : CheatKinds, at : 1..NumIdx]

VerifyIdle ==
    /\ vpc = "start"
    /\ dim = 0
    /\ seeds = <<>>
    /\ shm = <<>>
    /\ root_hashes = <<>>
    /\ indices = <<>>
    /\ responses = <<>>
    /\ failed_gpus = {}
    /\ verification_passed = FALSE
    /\ cheat = Honest

\* get_random_seeds and send_seeds; the work of one exchange is kept small by
\* n * g <= MaxGpus
SendSeeds(n, g, shift) ==
    /\ vpc = "start"
    /\ n * g <= MaxGpus
    /\ dim' = n
    /\ seeds' = [gpu_id \in 0..(g - 1) |->
                    <<SeedPool[((shift + 2 * gpu_id) % Len(SeedPool)) + 1],
                      SeedPool[((shift + 2 * gpu_id + 1) % Len(SeedPool)) + 1]>>]
    /\ vpc' = "seeded"
    /\ UNCHANGED <<shm, root_hashes, indices, responses, failed_gpus,
                   verification_passed, cheat>>

\* jobs: what gpu_job returned and saved for gpu_id 0, 1, ...
Committed(jobs) ==
    /\ shm' = [gpu_id \in DOMAIN seeds |->
                  [rows |-> jobs[gpu_id + 1].rows, flat |-> jobs[gpu_id + 1].flat]]
    /\ root_hashes' = [gpu_id \in DOMAIN seeds |-> hex(jobs[gpu_id + 1].root)]

\* run_compute on the node, parse_merkle_output on the verifier
RunCompute(c) ==
    /\ vpc = "seeded"
    /\ c \in Cheats(Cardinality(DOMAIN seeds))
    /\ cheat' = c
    /\ Committed(List([k \in 1..Cardinality(DOMAIN seeds) |->
                           IF (k - 1) \in c.gpus /\ c.kind = "stale"
                           THEN gpu_job(seeds[k - 1][2], seeds[k - 1][1], dim)
                           ELSE gpu_job(seeds[k - 1][1], seeds[k - 1][2], dim)],
                       Cardinality(DOMAIN seeds)))
    /\ vpc' = "committed"
    /\ UNCHANGED <<dim, seeds, indices, responses, failed_gpus, verification_passed>>

\* the verifier draws the indices: (i, j) for the first index of slot 0, the
\* other indices follow from it
Challenge(i, j) ==
    /\ vpc = "committed"
    /\ indices' = [gpu_id \in DOMAIN root_hashes |->
                      List([k \in 1..NumIdx |-> <<(i + gpu_id + k - 1) % (2 * dim),
                                                  (j + k - 1) % dim>>], NumIdx)]
    /\ vpc' = "challenged"
    /\ UNCHANGED <<dim, seeds, shm, root_hashes, responses, failed_gpus,
                   verification_passed, cheat>>

Tampered(response, pairs) ==
    LET k == cheat.at
        j == pairs[k][2] + 1
        row == response.rows[k]
    IN CASE cheat.kind = "nudge" ->
              [response EXCEPT !.rows[k] = [row EXCEPT ![j] = row[j] + 1]]
         [] cheat.kind = "forge" ->
              [response EXCEPT !.rows[k] = [row EXCEPT ![j] = row[j] + Pow2(2 * ValBits)]]
         [] cheat.kind = "sibling" ->
              [response EXCEPT !.proofs[k] = [@ EXCEPT ![1] = sha256(<<>>)]]
         [] OTHER -> response

\* run_proof on the node, receive_responses on the verifier
RunProof ==
    /\ vpc = "challenged"
    /\ responses' = [gpu_id \in DOMAIN indices |->
                        LET r == run_proof(shm[gpu_id], indices[gpu_id], dim)
                        IN IF gpu_id \in cheat.gpus THEN Tampered(r, indices[gpu_id])
                           ELSE r]
    /\ vpc' = "responded"
    /\ UNCHANGED <<dim, seeds, shm, root_hashes, indices, failed_gpus,
                   verification_passed, cheat>>

Returned(r) ==
    /\ failed_gpus' = r.failed_gpus
    /\ verification_passed' = r.verification_passed

Verify ==
    /\ vpc = "responded"
    /\ Returned(verify_responses(seeds, root_hashes, responses, indices, dim))
    /\ vpc' = "verified"
    /\ UNCHANGED <<dim, seeds, shm, root_hashes, indices, responses, cheat>>

VerifyNext ==
    \/ \E n \in 1..MaxN, g \in 0..MaxGpus, shift \in SeedShifts :
          SendSeeds(n, g, shift) /\ UNCHANGED exceptVerify
    \/ \E c \in Cheats(MaxGpus) : RunCompute(c) /\ UNCHANGED exceptVerify
    \/ \E i \in 0..(2 * MaxN - 1), j \in 0..(MaxN - 1) :
          i < 2 * dim /\ j < dim /\ Challenge(i, j) /\ UNCHANGED exceptVerify
    \/ RunProof /\ UNCHANGED exceptVerify
    \/ Verify /\ UNCHANGED exceptVerify

(***************************************************************************)
(* One tree, one path.  The node commits to any number of rows of any      *)
(* length, may overwrite a stored leaf digest afterwards, extracts the     *)
(* path of one row and may flip one bit of the row it reports.             *)
(***************************************************************************)
RowSalts == {0, 5}
\* the bits of a word below the sign bit
FlipBits == 0..(WordBits - 2)

MerkleIdle ==
    /\ mpc = "start"
    /\ tree_rows = <<>>
    /\ tree_flat = <<>>
    /\ tree_root = <<>>
    /\ altered = -1
    /\ leaf_index = 0
    /\ leaf_row = <<>>
    /\ leaf_proof = <<>>
    /\ flipped = <<>>
    /\ accepted = FALSE

\* the tensor C of gpu_job: total rows of the given length
RowsOf(total, width, salt) ==
    List([r \in 1..total |-> List([c \in 1..width |-> salt + 16 * r + c], width)], total)

\* the "hash" and "merkle" phases of gpu_job and the three files it leaves
Stored(job) ==
    /\ tree_rows' = job.rows
    /\ tree_flat' = job.flat
    /\ tree_root' = job.root

Commit(total, width, salt) ==
    /\ mpc = "start"
    /\ Stored(Hashed(RowsOf(total, width, salt)))
    /\ mpc' = "built"
    /\ UNCHANGED <<altered, leaf_index, leaf_row, leaf_proof, flipped, accepted>>

\* flat_{gid}.npy is overwritten at leaf t with the digest of another word
Alter(t) ==
    /\ mpc = "built"
    /\ altered = -1
    /\ t < Len(tree_rows)
    /\ tree_flat' = [tree_flat EXCEPT ![t + 1] = sha256(<<Xor(@.sha[1], {0})>>)]
    /\ altered' = t
    /\ UNCHANGED <<mpc, tree_rows, tree_root, leaf_index, leaf_row, leaf_proof, flipped,
                   accepted>>

\* run_proof for the single pair (i, 0)
Prove(i) ==
    /\ mpc = "built"
    /\ i < Len(tree_rows)
    /\ leaf_index' = i
    /\ leaf_row' = tree_rows[i + 1]
    /\ leaf_proof' = merkle_proof(tree_flat, i, Len(tree_rows))
    /\ mpc' = "proved"
    /\ UNCHANGED <<tree_rows, tree_flat, tree_root, altered, flipped, accepted>>

\* the value whose float32 pattern differs from that of v in bit b alone
Toggle(v, b) == IF b \in FloatBits(v) THEN v - Pow2(b) ELSE v + Pow2(b)

\* the reported row differs from the committed one in bit b of word c
FlipBit(c, b) ==
    /\ mpc = "proved"
    /\ flipped = <<>>
    /\ c <= Len(leaf_row)
    /\ leaf_row' = [leaf_row EXCEPT ![c] = Toggle(@, b)]
    /\ flipped' = <<c, b>>
    /\ UNCHANGED <<mpc, tree_rows, tree_flat, tree_root, altered, leaf_index, leaf_proof,
                   accepted>>

\* merkle_ok of verify_responses
Check ==
    /\ mpc = "proved"
    /\ accepted' = verify_merkle_proof_row(leaf_row, leaf_proof, fromhex(hex(tree_root)),
                                           leaf_index, Len(tree_rows))
    /\ mpc' = "checked"
    /\ UNCHANGED <<tree_rows, tree_flat, tree_root, altered, leaf_index, leaf_row,
                   leaf_proof, flipped>>

MerkleNext ==
    \/ \E total \in 1..MaxLeaves, width \in 1..MaxN, salt \in RowSalts :
          Commit(total, width, salt) /\ UNCHANGED exceptMerkle
    \/ \E t \in 0..(MaxLeaves - 1) : Alter(t) /\ UNCHANGED exceptMerkle
    \/ \E i \in 0..(MaxLeaves - 1) : Prove(i) /\ UNCHANGED exceptMerkle
    \/ \E c \in 1..MaxN, b \in FlipBits : FlipBit(c, b) /\ UNCHANGED exceptMerkle
    \/ Check /\ UNCHANGED exceptMerkle

(***************************************************************************)
(* The timing check of test_miner_gpu (Steps 5 and 6).                     *)
(***************************************************************************)
TimingIdle ==
    /\ tpc = "start"
    /\ time_tol = 0
    /\ time_fp32 = 0
    /\ elapsed_time = 0
    /\ gpu_timings_list = <<>>
    /\ timing_passed = FALSE

\* Step 5: the benchmark gives time_fp32, a positive time; the tolerance is
\* read from the configuration
Benchmarked(fp32, tol) ==
    /\ tpc = "start"
    /\ time_fp32' = fp32
    /\ time_tol' = tol
    /\ tpc' = "benchmarked"
    /\ UNCHANGED <<elapsed_time, gpu_timings_list, timing_passed>>

\* total_multiplication_time
RECURSIVE TotalGemm(_)
TotalGemm(timings) ==
    IF timings = <<>> THEN 0 ELSE Head(timings) + TotalGemm(Tail(timings))

\* average_multiplication_time < bound, the average being total / num_gpus
\* for num_gpus > 0 and 0.0 otherwise
AverageBelow(total, num, bound) ==
    IF num > 0 THEN total < bound * num ELSE 0 < bound

timing_check_lenient(elapsed, tol, timings, fp32) ==
    /\ elapsed <= tol + Len(timings) * fp32
    /\ AverageBelow(TotalGemm(timings), Len(timings), fp32)

\* the condition that sets timing_passed, num_gpus being len(gpu_timings_list)
timing_check(elapsed, tol, timings, fp32) ==
    /\ elapsed < tol + Len(timings) * fp32
    /\ AverageBelow(TotalGemm(timings), Len(timings), fp32)

\* Step 6: the compute mode ran for elapsed and reported the timings
Timed(elapsed, timings) ==
    /\ tpc = "benchmarked"
    /\ elapsed_time' = elapsed
    /\ gpu_timings_list' = timings
    /\ timing_passed' = timing_check(elapsed, time_tol, timings, time_fp32)
    /\ tpc' = "timed"
    /\ UNCHANGED <<time_tol, time_fp32>>

\* the lists of at most m gemm times
RECURSIVE TimingLists(_)
TimingLists(m) ==
    IF m = 0 THEN {<<>>}
    ELSE TimingLists(m - 1)
         \cup {Append(l, x) : l \in {q \in TimingLists(m - 1) : Len(q) = m - 1},
                               x \in 0..MaxTime}

\* the TIMINGS lines a node can report
AllTimings == TimingLists(MaxTimings)

TimingNext ==
    \/ \E fp32 \in 1..MaxTime, tol \in 0..MaxTime :
          Benchmarked(fp32, tol) /\ UNCHANGED exceptTiming
    \/ /\ tpc = "benchmarked"
       /\ \E elapsed \in 0..((MaxTimings + 1) * MaxTime + 1), timings \in AllTimings :
             Timed(elapsed, timings) /\ UNCHANGED exceptTiming

(***************************************************************************)
(* Epochs and slots.                                                       *)
(***************************************************************************)
ChainIdle ==
    /\ booted = FALSE
    /\ chain = 0
    /\ blocks_per_epoch = 1
    /\ validators = 1
    /\ my_index = 0
    /\ max_challenge_blocks = 0
    /\ rand_delay_blocks_max = 0
    /\ eligible = FALSE

\* __init__ reads the subnet configuration; the validator set is fixed
Configure(bpe, k, me, mcb, rmax, el) ==
    /\ ~booted
    /\ me <= k
    /\ booted' = TRUE
    /\ blocks_per_epoch' = bpe
    /\ validators' = k
    /\ my_index' = me
    /\ max_challenge_blocks' = mcb
    /\ rand_delay_blocks_max' = rmax
    /\ eligible' = el
    /\ UNCHANGED chain

\* a block is produced
Advance ==
    /\ chain < MaxBlock
    /\ chain' = chain + 1
    /\ UNCHANGED <<booted, blocks_per_epoch, validators, my_index, max_challenge_blocks,
                   rand_delay_blocks_max, eligible>>

\* (blk or self.current_block) // self.blocks_per_epoch
current_epoch(blk, height, bpe) == (IF blk # 0 THEN blk ELSE height) \div bpe

epoch_is_pog(ep) == ep % 2 = 0

epoch_start_block(ep, bpe) == ep * bpe

\* the ring size and our index in it: a hotkey outside the set takes slot 0
\* of a ring of len(vals) + 1
Ring(k, me) == IF me < k THEN [slots |-> k, idx |-> me] ELSE [slots |-> k + 1, idx |-> 0]

SlotOf(first, size, idx) == <<first + idx * size, first + (idx + 1) * size - 1>>

\* the slot ends one block late
my_sybil_slot_late(ep, bpe, k, me) ==
    <<epoch_start_block(ep, bpe) + Ring(k, me).idx * (bpe \div Ring(k, me).slots),
      epoch_start_block(ep, bpe) + (Ring(k, me).idx + 1) * (bpe \div Ring(k, me).slots)>>

\* (slot_start, slot_end), both inclusive
my_sybil_slot(ep, bpe, k, me) ==
    SlotOf(epoch_start_block(ep, bpe), bpe \div Ring(k, me).slots, Ring(k, me).idx)

SlotIdle ==
    /\ spc = "idle"
    /\ slot_epoch = 0
    /\ slot_start = 0
    /\ slot_end = 0
    /\ checked_at = -1
    /\ drawn_at = -1
    /\ delay_blocks = 0
    /\ outcome = "none"

\* the main loop creates the task at the start of our slot of an odd epoch
SlotEnter ==
    /\ booted
    /\ spc = "idle"
    /\ ~epoch_is_pog(current_epoch(0, chain, blocks_per_epoch))
    /\ chain = my_sybil_slot(current_epoch(0, chain, blocks_per_epoch), blocks_per_epoch,
                              validators, my_index)[1]
    /\ spc' = "slot"
    /\ slot_epoch' = 0
    /\ slot_start' = 0
    /\ slot_end' = 0
    /\ checked_at' = -1
    /\ drawn_at' = -1
    /\ delay_blocks' = 0
    /\ outcome' = "none"

Slotted(ep, slot) ==
    /\ slot_epoch' = ep
    /\ slot_start' = slot[1]
    /\ slot_end' = slot[2]

\* 1: self.my_sybil_slot(), for the epoch of the height read now
DetermineSlot ==
    /\ spc = "slot"
    /\ Slotted(current_epoch(0, chain, blocks_per_epoch),
               my_sybil_slot(current_epoch(0, chain, blocks_per_epoch), blocks_per_epoch,
                             validators, my_index))
    /\ spc' = "check"
    /\ UNCHANGED <<checked_at, drawn_at, delay_blocks, outcome>>

\* latest_start = slot_end - self.max_challenge_blocks
latest_start == slot_end - max_challenge_blocks

\* if self.current_block >= latest_start: return
CheckSlot ==
    /\ spc = "check"
    /\ checked_at' = chain
    /\ IF chain >= latest_start
       THEN spc' = "idle" /\ outcome' = "skipped"
       ELSE spc' = "draw" /\ UNCHANGED outcome
    /\ UNCHANGED <<slot_epoch, slot_start, slot_end, drawn_at, delay_blocks>>

Min(a, b) == IF a < b THEN a ELSE b

delay_range_slotOnly(rmax, latest, height) == 1..(latest - height)

\* the values random.randint(1, min(rand_delay_blocks_max, latest_start -
\* current_block)) can return; it raises ValueError when there is none
delay_range(rmax, latest, height) == 1..Min(rmax, latest - height)

\* 2: the delay is drawn from a height read anew; a ValueError ends the
\* round in the except clause
DrawDelay(d) ==
    /\ spc = "draw"
    /\ drawn_at' = chain
    /\ IF delay_range(rand_delay_blocks_max, latest_start, chain) = {}
       THEN spc' = "idle" /\ outcome' = "raised" /\ UNCHANGED delay_blocks
       ELSE /\ d \in delay_range(rand_delay_blocks_max, latest_start, chain)
            /\ delay_blocks' = d
            /\ spc' = "sleeping"
            /\ UNCHANGED outcome
    /\ UNCHANGED <<slot_epoch, slot_start, slot_end, checked_at>>

\* 3 to 5: after the sleep the nodes are chosen and challenged
LaunchChallenges ==
    /\ spc = "sleeping"
    /\ outcome' = "challenged"
    /\ spc' = "idle"
    /\ UNCHANGED <<slot_epoch, slot_start, slot_end, checked_at, drawn_at, delay_blocks>>

SlotNext ==
    \/ \E bpe \in 1..MaxEpochLen, k \in 1..MaxValidators, me \in 0..MaxValidators,
          mcb \in 0..MaxChallenge, rmax \in 0..MaxDelay, el \in BOOLEAN :
          Configure(bpe, k, me, mcb, rmax, el) /\ UNCHANGED <<slotVars, exceptSlot>>
    \/ Advance /\ UNCHANGED <<slotVars, exceptSlot>>
    \/ SlotEnter /\ UNCHANGED <<chainVars, exceptSlot>>
    \/ DetermineSlot /\ UNCHANGED <<chainVars, exceptSlot>>
    \/ CheckSlot /\ UNCHANGED <<chainVars, exceptSlot>>
    \/ \E d \in 0..MaxDelay : DrawDelay(d) /\ UNCHANGED <<chainVars, exceptSlot>>
    \/ LaunchChallenges /\ UNCHANGED <<chainVars, exceptSlot>>

(***************************************************************************)
(* The main loop.  self.current_block is a property: every use of it asks  *)
(* the chain for its height, and blocks are produced between two uses.     *)
(* Tasks and done callbacks run while the loop sleeps.                     *)
(***************************************************************************)
LoopIdle ==
    /\ lpc = "top"
    /\ epoch = 0
    /\ blocks_done = {}
    /\ last_pog_epoch = -1
    /\ last_sybil_epoch = -1
    /\ gpu_task = "none"
    /\ callback = "none"
    /\ orphans = <<>>
    /\ launches = <<>>

\* epoch = self.current_epoch()
LoopTop ==
    /\ booted
    /\ lpc = "top"
    /\ epoch' = current_epoch(0, chain, blocks_per_epoch)
    /\ lpc' = "gate"
    /\ UNCHANGED <<blocks_done, last_pog_epoch, last_sybil_epoch, gpu_task, callback,
                   orphans, launches>>

\* if self.current_block not in self.blocks_done
LoopGate ==
    /\ lpc = "gate"
    /\ lpc' = IF chain \notin blocks_done THEN "mark" ELSE "sleep"
    /\ UNCHANGED <<epoch, blocks_done, last_pog_epoch, last_sybil_epoch, gpu_task,
                   callback, orphans, launches>>

\* self.blocks_done.add(self.current_block); the heights below the one read
\* are left out of the model's set: the chain never goes back, so the loop
\* never asks for them again
LoopMark ==
    /\ lpc = "mark"
    /\ blocks_done' = {b \in blocks_done \cup {chain} : b >= chain}
    /\ lpc' = "launch"
    /\ UNCHANGED <<epoch, last_pog_epoch, last_sybil_epoch, gpu_task, callback, orphans,
                   launches>>

\* the history keeps the launches made in the epoch of the present height
SameEpoch(l) ==
    current_epoch(l.block, chain, blocks_per_epoch) = current_epoch(0, chain, blocks_per_epoch)

\* asyncio.create_task when self.gpu_task is None or done
Created(kind) ==
    IF gpu_task \in {"none", "finished"}
    THEN /\ gpu_task' = kind
         /\ launches' = Append(SelectSeq(launches, SameEpoch),
                               [kind |-> kind, block |-> chain])
    ELSE UNCHANGED <<gpu_task, launches>>

\* epoch != last_pog_epoch and self.current_block % self.blocks_per_epoch == 0
LegacyDue == epoch # last_pog_epoch /\ chain % blocks_per_epoch = 0

\* epoch != last_sybil_epoch and self.current_block == slot_start
SybilDue ==
    /\ epoch # last_sybil_epoch
    /\ chain = my_sybil_slot(epoch, blocks_per_epoch, validators, my_index)[1]

\* the branch on the parity of epoch
LoopLaunch ==
    /\ lpc = "launch"
    /\ IF epoch_is_pog(epoch)
       THEN IF LegacyDue
            THEN Created("pog") /\ last_pog_epoch' = epoch /\ UNCHANGED last_sybil_epoch
            ELSE UNCHANGED <<gpu_task, launches, last_pog_epoch, last_sybil_epoch>>
       ELSE IF eligible /\ SybilDue
            THEN Created("sybil") /\ last_sybil_epoch' = epoch /\ UNCHANGED last_pog_epoch
            ELSE UNCHANGED <<gpu_task, launches, last_pog_epoch, last_sybil_epoch>>
    /\ lpc' = "tail"
    /\ UNCHANGED <<epoch, blocks_done, callback, orphans>>

\* the periodic work of the rest of the body; when the weights are set
\* blocks_done is cleared and the height read then is added
LoopTail(weights) ==
    /\ lpc = "tail"
    /\ blocks_done' = IF weights THEN {chain} ELSE blocks_done
    /\ lpc' = "sleep"
    /\ UNCHANGED <<epoch, last_pog_epoch, last_sybil_epoch, gpu_task, callback, orphans,
                   launches>>

\* await asyncio.sleep(1) returns.  A done callback scheduled by a task that
\* ended in the same pass of the event loop, ahead of the loop's wake-up,
\* runs only at the loop's next await.
LoopSleep ==
    /\ lpc = "sleep"
    /\ callback # "overtaken"
    /\ callback = "scheduled" => Len(orphans) < MaxOrphans
    /\ lpc' = "top"
    /\ callback' = IF callback = "scheduled" THEN "overtaken" ELSE callback
    /\ UNCHANGED <<epoch, blocks_done, last_pog_epoch, last_sybil_epoch, gpu_task,
                   orphans, launches>>

\* the task self.gpu_task refers to ends while the loop sleeps; the end of
\* a legacy round schedules on_gpu_task_done with call_soon, a private-slot
\* round has no done callback
TaskDone ==
    /\ lpc = "sleep"
    /\ callback = "none"
    /\ gpu_task \in {"pog", "sybil"}
    /\ gpu_task' = "finished"
    /\ callback' = IF gpu_task = "pog" THEN "scheduled" ELSE "none"
    /\ UNCHANGED <<lpc, epoch, blocks_done, last_pog_epoch, last_sybil_epoch, orphans,
                   launches>>

\* on_gpu_task_done(task): self.gpu_task = None, whichever task the
\* reference holds by then
on_gpu_task_done ==
    /\ lpc = "sleep"
    /\ callback # "none"
    /\ callback' = "none"
    /\ gpu_task' = "none"
    /\ orphans' = IF gpu_task \in {"pog", "sybil"} THEN Append(orphans, gpu_task)
                  ELSE orphans
    /\ UNCHANGED <<lpc, epoch, blocks_done, last_pog_epoch, last_sybil_epoch, launches>>

\* a round that lost its reference ends
OrphanDone(i) ==
    /\ lpc = "sleep"
    /\ callback = "none"
    /\ i \in 1..Len(orphans)
    /\ orphans' = SubSeq(orphans, 1, i - 1) \o SubSeq(orphans, i + 1, Len(orphans))
    /\ callback' = IF orphans[i] = "pog" THEN "scheduled" ELSE "none"
    /\ UNCHANGED <<lpc, epoch, blocks_done, last_pog_epoch, last_sybil_epoch, gpu_task,
                   launches>>

LoopNext ==
    \/ \E bpe \in 1..MaxEpochLen, k \in 1..MaxValidators, me \in 0..MaxValidators,
          el \in BOOLEAN :
          Configure(bpe, k, me, 0, 0, el) /\ UNCHANGED <<loopVars, exceptLoop>>
    \/ Advance /\ UNCHANGED <<loopVars, exceptLoop>>
    \/ LoopTop /\ UNCHANGED <<chainVars, exceptLoop>>
    \/ LoopGate /\ UNCHANGED <<chainVars, exceptLoop>>
    \/ LoopMark /\ UNCHANGED <<chainVars, exceptLoop>>
    \/ LoopLaunch /\ UNCHANGED <<chainVars, exceptLoop>>
    \/ \E weights \in BOOLEAN : LoopTail(weights) /\ UNCHANGED <<chainVars, exceptLoop>>
    \/ LoopSleep /\ UNCHANGED <<chainVars, exceptLoop>>
    \/ TaskDone /\ UNCHANGED <<chainVars, exceptLoop>>
    \/ on_gpu_task_done /\ UNCHANGED <<chainVars, exceptLoop>>
    \/ \E i \in 1..MaxOrphans : OrphanDone(i) /\ UNCHANGED <<chainVars, exceptLoop>>

(***************************************************************************)
(* The worker of proof_of_gpu followed for one node, with the settings     *)
(* pog_retry_limit and pog_retry_interval as read from the configuration.  *)
(***************************************************************************)
RetryIdle ==
    /\ rpc = "off"
    /\ retry_limit = 0
    /\ retry_interval = 0
    /\ retries = 0
    /\ slept = <<>>
    /\ recorded = "none"

\* Settings: retry_limit and retry_interval; the node is put on the queue.
RetrySettings(limit, interval) ==
    /\ rpc = "off"
    /\ rpc' = "test"
    /\ retry_limit' = limit
    /\ retry_interval' = interval
    /\ UNCHANGED <<retries, slept, recorded>>

\* The argument of asyncio.sleep on the retry path.
retry_delay(interval, count) == interval

\* what an attempt can end with: test_miner_gpu never returns a success
\* (health_check_call), so that branch of the worker is not entered
AttemptResults == {"health", "failed", "exception", "timeout"}

\* One pass of the worker's loop body on the node: the test under wait_for,
\* the branches on its result and the two except clauses.
RetryAttempt(res) ==
    /\ rpc = "test"
    /\ IF res = "success"
       THEN /\ recorded' = "gpu"
            /\ rpc' = "done"
            /\ UNCHANGED <<retries, slept>>
       ELSE IF res = "health"
       THEN /\ recorded' = "null"
            /\ rpc' = "done"
            /\ UNCHANGED <<retries, slept>>
       ELSE /\ retries' = retries + 1
            /\ IF retries + 1 < retry_limit
               THEN /\ slept' = Append(slept, retry_delay(retry_interval, retries + 1))
                    /\ rpc' = "sleep"
                    /\ UNCHANGED recorded
               ELSE /\ recorded' = "null"
                    /\ rpc' = "done"
                    /\ UNCHANGED slept
    /\ UNCHANGED <<retry_limit, retry_interval>>

\* The sleep is over: queue.put(axon), and a worker takes the node again.
RetryRequeue ==
    /\ rpc = "sleep"
    /\ rpc' = "test"
    /\ UNCHANGED <<retry_limit, retry_interval, retries, slept, recorded>>

RetryNext ==
    \/ \E limit \in 1..MaxRetryLimit, interval \in 1..MaxInterval :
          RetrySettings(limit, interval) /\ UNCHANGED exceptRetry
    \/ \E res \in AttemptResults : RetryAttempt(res) /\ UNCHANGED exceptRetry
    \/ RetryRequeue /\ UNCHANGED exceptRetry

(***************************************************************************)
(* The generator of one matrix cell, on the verifier (prng) and on the     *)
(* node (gen_matrix).                                                      *)
(***************************************************************************)
\* 0x90CC78E1
SeedOfOnes == {0, 5, 6, 7, 11, 12, 13, 14, 18, 19, 22, 23, 28, 31}

\* random.randrange(2**32): small seeds, seeds next to 2^32 and two seeds
\* picked for the state they lead to
PrngSeeds ==
    {Word(0), Word(1), Word(7), Word(65537), MASK32, MASK32 \ {0}, SeedOfOnes,
     SeedOfOnes \ {0}}

PrngIdle ==
    /\ gpc = "start"
    /\ gseed = {}
    /\ gi = 0
    /\ gj = 0
    /\ vstate = {}
    /\ mstate = {}

\* A seed of the seeds file and a cell of the n x n matrix.
PrngCell(seed, n, i, j) ==
    /\ gpc = "start"
    /\ i < n /\ j < n
    /\ gpc' = "cell"
    /\ gseed' = seed
    /\ gi' = i
    /\ gj' = j
    /\ UNCHANGED <<vstate, mstate>>

\* prng(seed, i, j) up to its division.
VerifierState ==
    /\ gpc \in {"cell", "node"}
    /\ gpc' = IF gpc = "cell" THEN "verifier" ELSE "both"
    /\ vstate' = prngState(gseed, gi, gj)
    /\ UNCHANGED <<gseed, gi, gj, mstate>>

\* gen_matrix(seed, n) up to its division, for the cell.
NodeState ==
    /\ gpc \in {"cell", "verifier"}
    /\ gpc' = IF gpc = "cell" THEN "node" ELSE "both"
    /\ mstate' = gen_state(gseed, gi, gj)
    /\ UNCHANGED <<gseed, gi, gj, vstate>>

PrngNext ==
    \/ \E seed \in PrngSeeds, n \in 1..MaxN, i \in 0..(MaxN - 1), j \in 0..(MaxN - 1) :
          PrngCell(seed, n, i, j) /\ UNCHANGED exceptPrng
    \/ VerifierState /\ UNCHANGED exceptPrng
    \/ NodeState /\ UNCHANGED exceptPrng

(***************************************************************************)
(* get_specs_wandb and update_miner_details: the table miner_details and   *)
(* its failure counters.  A hotkey is a string and a key of specs_dict is  *)
(* the position of a run in the listing, an integer: the two never compare *)
(* equal.                                                                  *)
(***************************************************************************)
NoRow == -1
Miners == 1..MaxMiners
Key(h) == <<"hotkey", h>>
Index(k) == <<"index", k>>

DetailsIdle ==
    /\ miner_details = [h \in Miners |-> NoRow]
    /\ calls = <<>>
    /\ removed = {}

\* get_miner_specs: db_specs_dict[index] = (hotkey, specs) for the running
\* miner runs that carry specs, a valid signature and a queryable hotkey; the
\* run of node h is listed at position h.
get_miner_specs(P) == [k \in P |-> [hotkey |-> Key(k), specs |-> TRUE]]

\* no_specs_count after the UPDATE or upsert of a failure, and the DELETE
\* that follows it
Failed(count) ==
    LET c == IF count = NoRow THEN 1 ELSE IF count >= 2 THEN 2 ELSE count + 1
    IN IF c >= 2 THEN NoRow ELSE c

\* update_miner_details(db, hotkey_list, benchmark_responses): the first loop
\* over the responses, then the loop over existing_hotkeys - present_hotkeys.
update_miner_details(table, hotkey_list, benchmark_responses) ==
    LET existing_hotkeys == {Key(h) : h \in {x \in Miners : table[x] # NoRow}}
        present_hotkeys == hotkey_list
        missing_hotkeys == existing_hotkeys \ present_hotkeys
        upserted == [h \in Miners |->
                       IF \E r \in benchmark_responses : r.hotkey = Key(h) /\ r.specs
                       THEN 0
                       ELSE IF \E r \in benchmark_responses : r.hotkey = Key(h)
                       THEN Failed(table[h])
                       ELSE table[h]]
    IN [h \in Miners |->
          IF Key(h) \in missing_hotkeys /\ upserted[h] # NoRow
          THEN Failed(upserted[h])
          ELSE upserted[h]]

\* The hotkeys that the table lost.
Deleted(before, after) == {h \in Miners : before[h] # NoRow /\ after[h] = NoRow}

\* get_specs_wandb with the specs of the nodes P on Wandb:
\* update_miner_details(self.db, list(specs_dict.keys()), list(specs_dict.values())).
GetSpecsWandb(P) ==
    LET specs_dict == get_miner_specs(P)
        keys == {Index(k) : k \in DOMAIN specs_dict}
        values == {specs_dict[k] : k \in DOMAIN specs_dict}
        after == update_miner_details(miner_details, keys, values)
    IN /\ miner_details' = after
       /\ removed' = Deleted(miner_details, after)
       /\ calls' = IF Len(calls) < 2 THEN Append(calls, P) ELSE <<calls[2], P>>

DetailsNext == \E P \in SUBSET Miners : GetSpecsWandb(P) /\ UNCHANGED exceptDetails

(***************************************************************************)
(* health_check_server.py: the processes started on one port of a node.    *)
(* Each process runs create_health_check_server; its file-system and       *)
(* socket calls interleave with those of the other processes.              *)
(***************************************************************************)
Instances == 1..MaxInstances
NoFile == 0
NoInstance == 0

PidIdle ==
    /\ ipc = [i \in Instances |-> "off"]
    /\ pid_file = NoFile
    /\ listener = NoInstance

\* python3 health_check_server.py --port <port>: main() calls
\* create_health_check_server, which installs the signal handlers.
StartInstance(i) ==
    /\ ipc[i] \in {"off", "exited"}
    /\ ipc' = [ipc EXCEPT ![i] = "starting"]
    /\ UNCHANGED <<pid_file, listener>>

\* create_pid_file: os.path.exists(pid_file_path).  When the file exists the
\* function returns False and the caller runs sys.exit(1) inside its try
\* block: SystemExit passes the except clauses and runs the finally clause.
create_pid_file_exists(i) ==
    /\ ipc[i] = "starting"
    /\ ipc' = [ipc EXCEPT ![i] = IF pid_file # NoFile THEN "finally" ELSE "writing"]
    /\ UNCHANGED <<pid_file, listener>>

\* create_pid_file: the file is opened for writing and receives os.getpid();
\* an error makes the function return False.
create_pid_file_write(i, ok) ==
    /\ ipc[i] = "writing"
    /\ IF ok
       THEN /\ pid_file' = i
            /\ ipc' = [ipc EXCEPT ![i] = "binding"]
       ELSE /\ ipc' = [ipc EXCEPT ![i] = "finally"]
            /\ UNCHANGED pid_file
    /\ UNCHANGED listener

\* TimeoutHTTPServer((host, port), ...): the socket is bound and listens.
\* With the port taken the constructor raises OSError(98): the except clause
\* calls remove_pid_file and sys.exit(1), then the finally clause runs
\* without a server.
BindServer(i) ==
    /\ ipc[i] = "binding"
    /\ IF listener = NoInstance
       THEN /\ listener' = i
            /\ ipc' = [ipc EXCEPT ![i] = "serving"]
            /\ UNCHANGED pid_file
       ELSE /\ pid_file' = NoFile
            /\ ipc' = [ipc EXCEPT ![i] = "finally"]
            /\ UNCHANGED listener

\* serve_forever is interrupted: SIGTERM or SIGINT runs signal_handler, whose
\* sys.exit(0) unwinds to the finally clause.
signal_handler(i) ==
    /\ ipc[i] = "serving"
    /\ ipc' = [ipc EXCEPT ![i] = "finally"]
    /\ UNCHANGED <<pid_file, listener>>

\* The finally clause: remove_pid_file(pid_file_path) removes the file if it
\* exists, whoever wrote it.
remove_pid_file(i) ==
    /\ ipc[i] = "finally"
    /\ pid_file' = NoFile
    /\ ipc' = [ipc EXCEPT ![i] = IF listener = i THEN "closing" ELSE "exited"]
    /\ UNCHANGED listener

\* The finally clause with a server: server.shutdown() and server_close(),
\* which closes the socket and removes the PID file if it exists.
server_close(i) ==
    /\ ipc[i] = "closing"
    /\ listener' = NoInstance
    /\ pid_file' = NoFile
    /\ ipc' = [ipc EXCEPT ![i] = "exited"]

PidNext ==
    \/ \E i \in Instances : StartInstance(i) /\ UNCHANGED exceptPid
    \/ \E i \in Instances : create_pid_file_exists(i) /\ UNCHANGED exceptPid
    \/ \E i \in Instances, ok \in BOOLEAN : create_pid_file_write(i, ok) /\ UNCHANGED exceptPid
    \/ \E i \in Instances : BindServer(i) /\ UNCHANGED exceptPid
    \/ \E i \in Instances : signal_handler(i) /\ UNCHANGED exceptPid
    \/ \E i \in Instances : remove_pid_file(i) /\ UNCHANGED exceptPid
    \/ \E i \in Instances : server_close(i) /\ UNCHANGED exceptPid

(***************************************************************************)
(* health_check.py: perform_health_check.  The node and the network decide *)
(* how each step turns out; the helpers catch their own exceptions and     *)
(* return False, except wait_for_health_check, which catches only those of *)
(* requests.                                                               *)
(***************************************************************************)
\* the line the validator waits for, and the line health_check_server.py prints
expected_ready_signal == "Health check server: Ready - endpoints: /health, /"
ServerReadyLine == "Health check server: Ready - endpoint: /"
ReadyLines == {expected_ready_signal, ServerReadyLine, ""}

HttpOutcomes == {"ok", "fail", "raise"}

HealthEnvs ==
    [connect : BOOLEAN, upload : BOOLEAN, start : BOOLEAN, line : ReadyLines,
     http : HttpOutcomes, kill : BOOLEAN]

HealthIdle ==
    /\ hpc = "idle"
    /\ henv = [connect |-> FALSE, upload |-> FALSE, start |-> FALSE, line |-> "",
               http |-> "fail", kill |-> FALSE]
    /\ ran = <<>>
    /\ health_check_result = "none"

\* wait_for_server_ready_signal: expected_signal in buffered_output, until the
\* channel closes or the timeout passes.  Neither line contains the other.
wait_for_server_ready_signal(output, expected_signal) == output = expected_signal

\* return False, through the finally clause
HealthFail == hpc' = "finally" /\ health_check_result' = "False"

\* perform_health_check(axon, miner_info, config_data) is called.
HealthCall(env) ==
    /\ hpc = "idle"
    /\ hpc' = "connect"
    /\ henv' = env
    /\ UNCHANGED <<ran, health_check_result>>

\* ssh_client.connect(...), in its own try.
HealthConnect ==
    /\ hpc = "connect"
    /\ ran' = Append(ran, "connect")
    /\ IF henv.connect THEN hpc' = "upload" /\ UNCHANGED health_check_result
       ELSE HealthFail
    /\ UNCHANGED henv

\* upload_health_check_script.
HealthUpload ==
    /\ hpc = "upload"
    /\ ran' = Append(ran, "upload")
    /\ IF henv.upload THEN hpc' = "start" /\ UNCHANGED health_check_result
       ELSE HealthFail
    /\ UNCHANGED henv

\* start_health_check_server_background.
HealthStartServer ==
    /\ hpc = "start"
    /\ ran' = Append(ran, "start")
    /\ IF henv.start THEN hpc' = "ready" /\ UNCHANGED health_check_result
       ELSE HealthFail
    /\ UNCHANGED henv

\* wait_for_server_ready_signal(channel, expected_ready_signal, ...).
HealthReady ==
    /\ hpc = "ready"
    /\ ran' = Append(ran, "ready")
    /\ IF wait_for_server_ready_signal(henv.line, expected_ready_signal)
       THEN hpc' = "http" /\ UNCHANGED health_check_result
       ELSE HealthFail
    /\ UNCHANGED henv

\* wait_for_health_check; an exception it does not catch reaches the outer
\* except clause.
HealthHttp ==
    /\ hpc = "http"
    /\ ran' = Append(ran, "http")
    /\ IF henv.http = "ok" THEN hpc' = "kill" /\ UNCHANGED health_check_result
       ELSE HealthFail
    /\ UNCHANGED henv

\* the result depends on the kill
HealthKill_strict ==
    /\ hpc = "kill"
    /\ ran' = Append(ran, "kill")
    /\ hpc' = "finally"
    /\ health_check_result' = IF henv.kill THEN "True" ELSE "False"
    /\ UNCHANGED henv

\* kill_health_check_server: its result only chooses the log line.
HealthKill ==
    /\ hpc = "kill"
    /\ ran' = Append(ran, "kill")
    /\ hpc' = "finally"
    /\ health_check_result' = "True"
    /\ UNCHANGED henv

\* The finally clause closes the channel and the SSH client; the value is
\* returned.
HealthFinally ==
    /\ hpc = "finally"
    /\ hpc' = "returned"
    /\ UNCHANGED <<henv, ran, health_check_result>>

HealthNext ==
    \/ \E env \in HealthEnvs : HealthCall(env) /\ UNCHANGED exceptHealth
    \/ HealthConnect /\ UNCHANGED exceptHealth
    \/ HealthUpload /\ UNCHANGED exceptHealth
    \/ HealthStartServer /\ UNCHANGED exceptHealth
    \/ HealthReady /\ UNCHANGED exceptHealth
    \/ HealthHttp /\ UNCHANGED exceptHealth
    \/ HealthKill /\ UNCHANGED exceptHealth
    \/ HealthFinally /\ UNCHANGED exceptHealth

(***************************************************************************)
(* The matrix dimension through Steps 6 and 7 of test_miner_gpu: the n     *)
(* sent with the seeds, the TIMINGS line of the node's compute output, the *)
(* n the challenge indices are drawn with and the n verify_responses gets. *)
(***************************************************************************)
DimIdle ==
    /\ dpc = "start"
    /\ n_seeds = 0
    /\ gpu_timings = <<>>
    /\ n_verify = 0
    /\ drawn = <<>>
    /\ merkle_leaves = 0

\* n = adjust_matrix_size(...); send_seeds(ssh_client, seeds, n).
DimSendSeeds(n) ==
    /\ dpc = "start"
    /\ dpc' = "seeded"
    /\ n_seeds' = n
    /\ n_verify' = n
    /\ UNCHANGED <<gpu_timings, drawn, merkle_leaves>>

\* Compute mode returns; parse_merkle_output gives the list the node printed
\* after TIMINGS:, here the 'n' of the entries of the gpu ids in ids.
DimCompute(ids, reported) ==
    /\ dpc = "seeded"
    /\ dpc' = "computed"
    /\ gpu_timings' = [gpu_id \in ids |-> reported[gpu_id]]
    /\ UNCHANGED <<n_seeds, n_verify, drawn, merkle_leaves>>

\* n = gpu_timings[0]['n'] if 0 in gpu_timings else n
timings_n(timings, n) == IF 0 \in DOMAIN timings THEN timings[0] ELSE n

\* Step 7: n is taken again, the indices are drawn with
\* np.random.randint(0, 2 * n) and np.random.randint(0, n) and sent.
DimChallenge(i, j) ==
    /\ dpc = "computed"
    /\ i < 2 * timings_n(gpu_timings, n_verify)
    /\ j < timings_n(gpu_timings, n_verify)
    /\ dpc' = "challenged"
    /\ n_verify' = timings_n(gpu_timings, n_verify)
    /\ drawn' = <<i, j>>
    /\ UNCHANGED <<n_seeds, gpu_timings, merkle_leaves>>

\* verify_responses(seeds, root_hashes, responses, indices, n):
\* total_leaves = 2 * n, and the sums run over range(n).
DimVerify ==
    /\ dpc = "challenged"
    /\ dpc' = "verified"
    /\ merkle_leaves' = 2 * n_verify
    /\ UNCHANGED <<n_seeds, gpu_timings, n_verify, drawn>>

GpuIds == 0..1

DimNext ==
    \/ \E n \in 1..MaxN : DimSendSeeds(n) /\ UNCHANGED exceptDim
    \/ \E ids \in SUBSET GpuIds, reported \in [GpuIds -> 1..MaxN] :
          DimCompute(ids, reported) /\ UNCHANGED exceptDim
    \/ \E i \in 0..(2 * MaxN - 1), j \in 0..(MaxN - 1) :
          DimChallenge(i, j) /\ UNCHANGED exceptDim
    \/ DimVerify /\ UNCHANGED exceptDim

(***************************************************************************)
(* The two row hashes on one row: the node hashes the row for its leaf,    *)
(* the verifier hashes the row it was sent back.                           *)
(***************************************************************************)
\* bit patterns of float32 values: 0.0, the smallest subnormal, -0.0, 1.0,
\* -1.0 and a NaN with every bit set
HashWords == {{}, {0}, {31}, 23..29, 23..29 \cup {31}, BitPos}

RECURSIVE RowsUpTo(_)
RowsUpTo(m) ==
    IF m = 0 THEN {}
    ELSE RowsUpTo(m - 1) \cup [1..m -> HashWords]

HashIdle ==
    /\ hashpc = "start"
    /\ hrow = <<>>
    /\ gpu_hash = {}
    /\ np_hash = {}

\* the node: h32 = row_hash_gpu(rows), one digest per row
HashCommit(row) ==
    /\ hashpc = "start"
    /\ hrow' = row
    /\ gpu_hash' = HashGpu(row)
    /\ hashpc' = "committed"
    /\ UNCHANGED np_hash

\* the verifier: row_hash32_np on the row of the response
HashRecompute ==
    /\ hashpc = "committed"
    /\ np_hash' = FoldNp(hrow)
    /\ hashpc' = "recomputed"
    /\ UNCHANGED <<hrow, gpu_hash>>

HashNext ==
    \/ \E row \in RowsUpTo(MaxWidth) : HashCommit(row) /\ UNCHANGED exceptHash
    \/ HashRecompute /\ UNCHANGED exceptHash

Init ==
    /\ RoundInit /\ VerifyIdle /\ MerkleIdle /\ TimingIdle
    /\ ChainIdle /\ SlotIdle /\ LoopIdle
    /\ RetryIdle
    /\ PrngIdle
    /\ DetailsIdle
    /\ PidIdle
    /\ HealthIdle
    /\ DimIdle
    /\ HashIdle

SpecRetry == Init /\ [][RetryNext]_vars

SpecPrng == Init /\ [][PrngNext]_vars

SpecDetails == Init /\ [][DetailsNext]_vars

SpecPid == Init /\ [][PidNext]_vars

SpecHealth == Init /\ [][HealthNext]_vars

SpecDim == Init /\ [][DimNext]_vars

SpecHash == Init /\ [][HashNext]_vars

SpecLoop == Init /\ [][LoopNext]_vars

SpecSlot == Init /\ [][SlotNext]_vars

SpecTiming == Init /\ [][TimingNext]_vars

SpecMerkle == Init /\ [][MerkleNext]_vars

SpecVerify == Init /\ [][VerifyNext]_vars

Next == LegacyNext \/ SybilNext

Spec == Init /\ [][Next]_vars

(***************************************************************************)
(* Properties of the rounds.                                               *)
(***************************************************************************)
Lifecycles == {thr[t] : t \in Threads} \cup {sthr[n] : n \in Nodes}

InQueue(n) == \E i \in 1..Len(queue) : queue[i] = n

\* C1: in every node test lifecycle, of the legacy round and of the
\* private-slot round, the challenge indices are generated and sent only
\* after compute mode has returned and the roots have been received and parsed.
C1_CommitBeforeChallenge ==
    \A l \in Lifecycles : l.idx => (l.roots /\ "compute" \in l.invoked)

C1_Witness ==
    \E t \in Threads : thr[t].pc = "challenged" /\ thr[t].idx /\ thr[t].roots

\* C2: a run of test_miner_gpu whose allocation succeeded has called
\* deallocate_miner by the time it returns, whatever the exit path.
C2_ReleaseBeforeReturn ==
    \A t \in Threads : (thr[t].pc = "done" /\ thr[t].alloc) => thr[t].dealloc

C2_Witness ==
    \E t \in Threads : /\ thr[t].pc = "done"
                       /\ thr[t].alloc
                       /\ thr[t].dealloc
                       /\ thr[t].cause = "integrity"

C4_NoRequeueAfterVerificationFailure ==
    [][\A w \in Workers :
         (wpc[w] = "sleep" /\ wpc'[w] = "get") => wcause[w] # "verification"]_vars

\* C5: in every node test lifecycle, once the local and the remote digest of
\* the benchmark program were found to differ, no mode of the program is run.
C5_NoModeAfterMismatch ==
    \A l \in Lifecycles : l.mismatch => l.invoked = {}

\* C6: a worker whose attempt ended with a script-integrity failure never
\* puts the node back on the queue.
C6_NoRequeueAfterIntegrityFailure ==
    [][\A w \in Workers :
         (wpc[w] = "sleep" /\ wpc'[w] = "get") => wcause[w] # "integrity"]_vars

\* C7: in a legacy round a node is attempted at most retry_limit times: it
\* is on the queue, or waiting to be put back, only while its retry count is
\* below retry_limit; at retry_limit the terminal failure is recorded and no
\* worker holds the node any more.
C7_RetryLimit ==
    \A n \in Nodes :
        /\ attempts[n] <= RetryLimit
        /\ retry_counts[n] <= RetryLimit
        /\ (InQueue(n) \/ \E w \in Workers : wpc[w] = "sleep" /\ waxon[w] = n)
              => retry_counts[n] < RetryLimit
        /\ retry_counts[n] = RetryLimit
              => /\ pog_stats[n] = "null"
                 /\ ~InQueue(n)
                 /\ \A w \in Workers : waxon[w] # n

C7_Witness ==
    \E n \in Nodes : /\ retry_counts[n] = RetryLimit
                     /\ attempts[n] = RetryLimit
                     /\ pog_stats[n] = "null"


(***************************************************************************)
(* Properties of the challenge/proof exchange.                             *)
(***************************************************************************)
Slots == DOMAIN root_hashes

NumericPassed(gpu_id, k) ==
    NumericOk(responses[gpu_id], k, seeds[gpu_id][1], seeds[gpu_id][2],
              indices[gpu_id][k][1], indices[gpu_id][k][2], dim)

MerklePassed(gpu_id, k) ==
    MerkleOk(responses[gpu_id], k, fromhex(root_hashes[gpu_id]),
             indices[gpu_id][k][1], dim)

\* C8: verify_responses counts a slot as passed exactly when every challenged
\* index of the slot passed the numeric comparison and the Merkle inclusion
\* check; one failing index makes the slot fail.
C8_SlotPassesOnlyIfAllIndicesPass ==
    vpc = "verified" =>
        \A gpu_id \in Slots :
            (gpu_id \notin failed_gpus) <=>
                \A k \in 1..Len(indices[gpu_id]) :
                    NumericPassed(gpu_id, k) /\ MerklePassed(gpu_id, k)

\* a slot failed on its last index alone, and on the Merkle check alone, next
\* to a slot that passed
C8_Witness ==
    /\ vpc = "verified"
    /\ \E gpu_id \in failed_gpus :
          /\ NumericPassed(gpu_id, 1) /\ MerklePassed(gpu_id, 1)
          /\ NumericPassed(gpu_id, NumIdx) /\ ~MerklePassed(gpu_id, NumIdx)
    /\ \E gpu_id \in Slots : gpu_id \notin failed_gpus

C9_Required(g) ==
    IF g <= 4 THEN g ELSE CHOOSE k \in 0..g : 4 * k >= 3 * g /\ 4 * (k - 1) < 3 * g

\* C9: with g slots of which p passed, verify_responses returns true iff
\* p >= required(g), required(g) = g for g <= 4 and ceil(0.75 g) above; with
\* g = 5 one failing slot passes and two failing slots fail.
C9_Threshold ==
    vpc = "verified" =>
        LET g == Cardinality(Slots)
            p == g - Cardinality(failed_gpus)
        IN /\ verification_passed <=> (p >= C9_Required(g))
           /\ (g = 5 /\ p = 4) => verification_passed
           /\ (g = 5 /\ p = 3) => ~verification_passed

C9_Witness ==
    /\ vpc = "verified"
    /\ Cardinality(Slots) = 5
    /\ Cardinality(failed_gpus) = 1
    /\ verification_passed

Untouched == altered = -1 /\ flipped = <<>>

\* C11: for every number of leaves N >= 1, odd N and odd widths of the
\* levels above included, and every index i in 0..N-1, the path merkle_proof
\* extracts from the tree of build_merkle_cpu makes verify_merkle_proof_row
\* accept row i at index i against the root.
C11_RoundTrip ==
    (mpc = "checked" /\ Untouched) => accepted

\* the last of five leaves: the widths are 5, 3, 2, 1 and the leaf is its own
\* sibling at the first two levels
C11_Witness ==
    /\ mpc = "checked"
    /\ Untouched
    /\ Len(tree_rows) = 5
    /\ leaf_index = 4
    /\ Len(leaf_proof) = 3
    /\ accepted

\* C12: flipping any single bit of any word of a reported row changes the
\* row's 32-bit digest and makes the verification of the row fail, for every
\* row length n >= 1, the lengths that are not a power of two included.
C12_BitFlipDetected ==
    (mpc = "checked" /\ altered = -1 /\ flipped # <<>>)
        => /\ row_hash32_np(leaf_row) # row_hash32_np(tree_rows[leaf_index + 1])
           /\ ~accepted

\* the node read at the lowest level of the path of leaf i among total leaves
Sibling(i, total) == IF Flip(i) >= total THEN i ELSE Flip(i)
OnPath(i, t, total) == total > 1 /\ Sibling(i, total) = t

\* C13 as stated: once a stored leaf digest is altered after the root was
\* produced, verification against the root fails for that leaf itself and for
\* every leaf whose extracted path contains the altered node.
C13_TamperFailsLeafAndPath ==
    (mpc = "checked" /\ altered >= 0 /\ flipped = <<>>
        /\ (leaf_index = altered \/ OnPath(leaf_index, altered, Len(tree_rows))))
        => ~accepted

\* C13 amended: verification fails for exactly the leaves whose extracted
\* path contains the altered node; the altered leaf itself fails only when it
\* is its own sibling, and is accepted otherwise.
C13_TamperFailsPath ==
    (mpc = "checked" /\ altered >= 0 /\ flipped = <<>>)
        => (accepted <=> ~OnPath(leaf_index, altered, Len(tree_rows)))

\* the sibling of the altered leaf is rejected and the altered leaf is
\* accepted, in two runs over four leaves
C13_Witness ==
    /\ mpc = "checked"
    /\ flipped = <<>>
    /\ Len(tree_rows) = 4
    /\ altered = 2
    /\ leaf_index = 3
    /\ ~accepted

\* the slots that ran gpu_job on the seeds they were sent
Faithful == {gpu_id \in DOMAIN shm : ~(gpu_id \in cheat.gpus /\ cheat.kind = "stale")}

\* C14: for every seed pair, dimension n and index (i, j) with 0 <= i < 2n and
\* 0 <= j < n, the value the verifier recomputes from the seeds equals entry
\* (i, j) of the stacked matrix [A.B ; B.A] the node built from gen_matrix and
\* committed to.  Checked under SpecVerify.
C14_ExpectedIsEntry ==
    \A gpu_id \in Faithful : \A i \in 0..(2 * dim - 1), j \in 0..(dim - 1) :
        Expected(seeds[gpu_id][1], seeds[gpu_id][2], i, j, dim)
            = shm[gpu_id].rows[i + 1][j + 1]

\* a slot of dimension 3 whose two products differ in their first rows
C14_Witness ==
    /\ vpc = "committed"
    /\ dim = 3
    /\ \E gpu_id \in Faithful :
          /\ shm[gpu_id].rows[4] # shm[gpu_id].rows[1]
          /\ \A j \in 0..2 :
                Expected(seeds[gpu_id][1], seeds[gpu_id][2], 3, j, dim)
                    = shm[gpu_id].rows[4][j + 1]

\* C15: in test_miner_gpu, timing_passed is true iff the elapsed compute time
\* is below time_tolerance + gpu_count * fp32_benchmark_time and the average
\* gemm time per GPU is below fp32_benchmark_time, both strictly, the fp32
\* time being the one of the earlier benchmark step.  Checked under
\* SpecTiming; gpu_count is the number of timings the compute mode reported.
C15_TimingPassed ==
    tpc = "timed" =>
        (timing_passed <=>
            /\ elapsed_time < time_tol + Len(gpu_timings_list) * time_fp32
            /\ IF Len(gpu_timings_list) = 0 THEN 0 < time_fp32
               ELSE TotalGemm(gpu_timings_list) < Len(gpu_timings_list) * time_fp32)

\* two GPUs, the elapsed time exactly at the bound: the check fails
C15_Witness ==
    /\ tpc = "timed"
    /\ Len(gpu_timings_list) = 2
    /\ TotalGemm(gpu_timings_list) < 2 * time_fp32
    /\ elapsed_time = time_tol + 2 * time_fp32
    /\ ~timing_passed

(***************************************************************************)
(* Claims about the slots and the jitter, checked under SpecSlot.          *)
(***************************************************************************)
\* the blocks of a slot
BlocksOf(slot) == slot[1]..slot[2]

\* our slot was determined and our hotkey is in the validator set
SlotKnown == spc \in {"check", "draw", "sleeping"} /\ my_index < validators

OthersSlot(other) == my_sybil_slot(slot_epoch, blocks_per_epoch, validators, other)

\* C16: for a fixed validator set of size k >= 1, the slots my_sybil_slot
\* assigns to two distinct validators of the set in the same odd epoch never
\* share a block.
C16_SlotsDisjoint ==
    (SlotKnown /\ ~epoch_is_pog(slot_epoch)) =>
        \A other \in 0..(validators - 1) :
            other # my_index =>
                BlocksOf(<<slot_start, slot_end>>) \cap BlocksOf(OthersSlot(other)) = {}

\* our slot and the one after it are both non-empty
C16_Witness ==
    /\ SlotKnown
    /\ ~epoch_is_pog(slot_epoch)
    /\ slot_end >= slot_start
    /\ my_index + 1 < validators
    /\ BlocksOf(OthersSlot(my_index + 1)) # {}

\* C17: for a fixed validator set of size k >= 1 and any epoch length, the
\* union of the k slots of one odd epoch is exactly the block range
\* [epoch_start, epoch_start + blocks_per_epoch), also when blocks_per_epoch
\* is not a multiple of k or k exceeds blocks_per_epoch.
C17_SlotsCoverEpoch ==
    (SlotKnown /\ ~epoch_is_pog(slot_epoch)) =>
        UNION {BlocksOf(OthersSlot(v)) : v \in 0..(validators - 1)}
            = epoch_start_block(slot_epoch, blocks_per_epoch)
              ..(epoch_start_block(slot_epoch, blocks_per_epoch) + blocks_per_epoch - 1)

EpochOf(block) == block \div blocks_per_epoch

\* C18: the main loop launches proof_of_gpu only at a block whose epoch
\* (block // blocks_per_epoch) is even, and proof_of_gpu_sybil only at a block
\* whose epoch is odd and which is the start of this validator's slot, for
\* every interleaving of block production with the loop's reads of the
\* current block.
C18_LaunchParity ==
    \A n \in 1..Len(launches) :
        IF launches[n].kind = "pog"
        THEN EpochOf(launches[n].block) % 2 = 0
        ELSE /\ EpochOf(launches[n].block) % 2 = 1
             /\ launches[n].block
                  = my_sybil_slot(EpochOf(launches[n].block), blocks_per_epoch,
                                  validators, my_index)[1]

\* C19: the main loop launches proof_of_gpu_sybil at most once per odd epoch
\* and proof_of_gpu at most once per even epoch, whatever the sequence of
\* block heights it observes.
C19_OncePerEpoch ==
    \A n, m \in 1..Len(launches) :
        (n # m /\ launches[n].kind = launches[m].kind)
            => EpochOf(launches[n].block) # EpochOf(launches[m].block)

(***************************************************************************)
(* Claims about the scheduling of a round, checked under Spec.             *)
(***************************************************************************)
\* A run of test_miner_gpu that has started and has not yet returned.
InFlight(l) == l.pc \notin {"idle", "done", "returned"}

\* C21: in a legacy round at most one test lifecycle is in flight for a given
\* node at any time: an attempt that exceeds the overall timeout is cancelled
\* before the node is re-queued, so a re-queued attempt never runs
\* concurrently with an earlier attempt on the same node.
C21_OneLifecyclePerNode ==
    \A t, u \in Threads :
        (t # u /\ InFlight(thr[t]) /\ InFlight(thr[u])) => thr[t].node # thr[u].node

(***************************************************************************)
(* A round under fair scheduling: the event loop runs every ready task and *)
(* the operating system runs every pool thread, so a round does not stop   *)
(* while one of its steps can be taken.                                    *)
(***************************************************************************)
SpecFair == Init /\ [][Next]_vars /\ WF_vars(Next)

\* The node has its outcome of the round: its statistics were written (a GPU
\* record or the null record) or the private-slot round has ranked it.
Terminal(n) == pog_stats[n] # "none" \/ n \in penalized

\* C22: a failure of one node's test (a failed result, a raised exception or a
\* timeout) never prevents the other queued nodes from being tested: in every
\* round each queued node reaches a terminal outcome.
C22_EveryQueuedNodeEnds ==
    \A n \in Nodes : (InQueue(n) \/ sthr[n].pc = "allocating") ~> Terminal(n)

\* The same for the legacy round alone.
C22_LegacyEnds == \A n \in Nodes : InQueue(n) ~> Terminal(n)

\* C23: in any test round, legacy or private-slot, the number of node tests
\* running concurrently never exceeds the configured ceiling max_workers,
\* whatever the number of candidate nodes.
C23_AtMostMaxWorkers ==
    mode # "idle" =>
        Cardinality({t \in Threads : InFlight(thr[t])})
          + Cardinality({n \in Nodes : InFlight(sthr[n])}) <= max_workers

\* The same for the legacy round alone.
C23_LegacyAtMostMaxWorkers ==
    Cardinality({t \in Threads : InFlight(thr[t])}) <= max_workers

(***************************************************************************)
(* Claims about the retry delay, checked under SpecRetry.                  *)
(***************************************************************************)
\* C24: the delay the orchestrator waits before re-queueing a failed or
\* timed-out node grows exponentially with that node's retry count: the delay
\* before retry k+1 is a constant multiple greater than 1 of the delay before
\* retry k (every delay exceeds the one before it, in the ratio of the first
\* two).
C24_DelayGrows ==
    \A k \in 1..(Len(slept) - 1) :
        /\ slept[k + 1] > slept[k]
        /\ slept[k + 1] * slept[1] = slept[k] * slept[2]

(***************************************************************************)
(* Claims about the cell generator, checked under SpecPrng.                *)
(***************************************************************************)
\* C25: for every 32-bit seed and all coordinates (i, j), prng(seed, i, j)
\* lies in [0, 1): the state after the ten rounds is never 2^32 - 1, so the
\* quotient by 2^32 - 1 is strictly less than 1.
C25_BelowOne ==
    gpc \in {"verifier", "both"} => (vstate # MASK32 /\ Unit(vstate) < Pow2(ValBits))

\* C26: for every 32-bit seed, dimension n and cell (i, j) with 0 <= i, j < n,
\* the state gen_matrix computes for the cell before its division equals the
\* state prng(seed, i, j) computes before its division.
C26_SameState == gpc = "both" => mstate = vstate

\* Both sides have computed a cell whose start value seed + i + j passes 2^32.
C26_Witness ==
    /\ gpc = "both"
    /\ 32 \in AddWide(AddWide(gseed, Word(gi)), Word(gj))
    /\ mstate = vstate
    /\ mstate # {}

(***************************************************************************)
(* Claims about miner_details, checked under SpecDetails.                  *)
(***************************************************************************)
\* C27: across successive update_miner_details calls as made by
\* get_specs_wandb, a miner is removed from miner_details only after two
\* consecutive calls in which no specs were available for it; a call in which
\* its specs are present leaves its failure counter at 0, so one missing call
\* after a present call never removes it.
C27_RemovedAfterTwoMisses ==
    \A h \in Miners :
        /\ h \in removed =>
             (Len(calls) = 2 /\ h \notin calls[1] /\ h \notin calls[2])
        /\ (calls # <<>> /\ h \in calls[Len(calls)]) => miner_details[h] = 0

(***************************************************************************)
(* Claims about the health-check server script, checked under SpecPid.     *)
(***************************************************************************)
\* C28: the PID file prevents multiple health-check server instances on a
\* port: while one instance is running its PID file exists, and a second
\* instance started on the same port exits without serving and without
\* removing or altering the first instance's PID file.
C28_PidFileGuardsPort ==
    \A i \in Instances :
        ipc[i] = "serving" =>
            /\ pid_file = i
            /\ \A j \in Instances \ {i} : ipc[j] # "serving"

\* At most one instance serves on the port.
C28_OneListener ==
    \A i, j \in Instances : (ipc[i] = "serving" /\ ipc[j] = "serving") => i = j

(***************************************************************************)
(* Claims about perform_health_check, checked under SpecHealth.            *)
(***************************************************************************)
HealthSteps == <<"connect", "upload", "start", "ready", "http", "kill">>

\* whether the k-th step of the call succeeds
StepOk(env, k) ==
    CASE k = 1 -> env.connect
      [] k = 2 -> env.upload
      [] k = 3 -> env.start
      [] k = 4 -> env.line = expected_ready_signal
      [] k = 5 -> env.http = "ok"
      [] k = 6 -> env.kill

\* the steps up to the first of the five checks that fails, all six otherwise
StepsDue(env) ==
    IF \E k \in 1..5 : ~StepOk(env, k)
    THEN SubSeq(HealthSteps, 1, CHOOSE k \in 1..5 :
                                  ~StepOk(env, k) /\ \A m \in 1..(k - 1) : StepOk(env, m))
    ELSE HealthSteps

\* C29: perform_health_check returns True iff the SSH connection, the script
\* upload, the server start, the server ready signal and the external HTTP
\* check all succeed, in that order; a failure of any of these steps returns
\* False without running the later steps, and a failure to kill the server
\* after a successful HTTP check does not change the True result.
C29_TrueIffAllStepsSucceed ==
    hpc = "returned" =>
        /\ health_check_result = IF \A k \in 1..5 : StepOk(henv, k) THEN "True" ELSE "False"
        /\ ran = StepsDue(henv)

\* A call whose five checks succeeded and whose kill failed has returned True.
C29_Witness ==
    /\ hpc = "returned"
    /\ health_check_result = "True"
    /\ ~henv.kill
    /\ ran = HealthSteps

(***************************************************************************)
(* Claims about the matrix dimension, checked under SpecDim.               *)
(***************************************************************************)
\* C30: the matrix dimension n that the verifier uses to recompute expected
\* values, to bound challenge indices and to size the Merkle tree equals the
\* dimension it wrote to the seeds file; no value reported by the node in its
\* compute output can change the n used for verification.
C30_DimensionIsTheOneSent ==
    /\ dpc \in {"challenged", "verified"} =>
          (n_verify = n_seeds /\ drawn[1] < 2 * n_seeds /\ drawn[2] < n_seeds)
    /\ dpc = "verified" => merkle_leaves = 2 * n_seeds

(***************************************************************************)
(* Further claims about verify_responses, checked under SpecVerify.        *)
(***************************************************************************)
\* C31: verify_responses returns true only if at least one GPU slot passed
\* verification; in particular it returns false when the node reports zero
\* commitment roots.
C31_TrueNeedsAPassingSlot ==
    (vpc = "verified" /\ verification_passed) =>
        \E gpu_id \in DOMAIN root_hashes : gpu_id \notin failed_gpus

(* Further claims about the legacy round, checked under Spec. *)
\* C32: an attempt in which verification passed, timing passed and the
\* node's health probe answers success returns (hotkey, gpu_name, num_gpus)
\* with a GPU model and a positive count.
C32_SuccessIsReturned ==
    \A t \in Threads :
        (thr[t].vp /\ thr[t].tp /\ thr[t].probe)
            => (thr[t].ret.name = "gpu" /\ thr[t].ret.n > 0)

(* Further claims about perform_health_check, checked under SpecHealth. *)
\* C33: when the uploaded health-check server has started and printed its
\* readiness line, wait_for_server_ready_signal returns True and
\* perform_health_check goes on to the external HTTP check.
C33_ReadyLineIsTheSignal ==
    (/\ hpc = "returned"
     /\ Len(ran) >= 4
     /\ ran[4] = "ready"
     /\ henv.line = ServerReadyLine)
        => (Len(ran) >= 5 /\ ran[5] = "http")

\* C34: proof_of_gpu returns only after every queued node has its terminal
\* outcome: while a node is on the queue, is being tested for a worker or
\* waits to be put back, the queue's count of unfinished tasks is not zero,
\* and when the round has returned every node that was taken from the queue
\* has its outcome.
C34_JoinAfterTerminal ==
    /\ mode = "legacy" =>
          unfinished = Len(queue)
                         + Cardinality({w \in Workers : wpc[w] \in {"wait", "sleep"}})
    /\ (mode = "done" /\ \E w \in Workers : wpc[w] = "cancelled") =>
          /\ queue = <<>>
          /\ \A n \in Nodes : attempts[n] > 0 => Terminal(n)

C34_Witness ==
    /\ mode = "done"
    /\ \E w \in Workers : wpc[w] = "cancelled"
    /\ \E n \in Nodes : /\ retry_counts[n] = RetryLimit
                         /\ attempts[n] = RetryLimit
                         /\ pog_stats[n] = "null"
    /\ \E n \in Nodes : pog_stats[n] = "null" /\ retry_counts[n] = 0

(***************************************************************************)
(* The legacy round alone, with its steps taken as long as one of them can *)
(* be: every attempt returns or runs into the worker's timeout, a sleeping *)
(* worker wakes up, a queued work item is picked by a free thread.         *)
(***************************************************************************)
SpecLegacyFair == Init /\ [][LegacyNext]_vars /\ WF_vars(LegacyNext)

\* C35: a legacy round terminates: every node is attempted finitely often,
\* the queue drains, the workers are cancelled and proof_of_gpu returns.
C35_LegacyTerminates ==
    (mode = "legacy") ~>
        (/\ mode = "done"
         /\ queue = <<>>
         /\ unfinished = 0
         /\ \A w \in Workers : wpc[w] \in {"off", "cancelled"}
         /\ \A n \in Nodes : attempts[n] <= RetryLimit)

C35_Witness ==
    /\ mode = "done"
    /\ queue = <<>>
    /\ \A w \in Workers : wpc[w] = "cancelled"
    /\ \A n \in Nodes : attempts[n] = RetryLimit /\ retry_counts[n] = RetryLimit

(* Further claims about the private-slot round, checked under Spec. *)
\* C36: once the round's timeout has expired proof_of_gpu_sybil never keeps
\* the event loop waiting for a benchmark thread that itself waits for a
\* coroutine scheduled on that event loop.
C36_LoopNeverWaitsForItsOwnThread ==
    ~(/\ mode = "sybil_shutdown"
      /\ loopOwner = -1
      /\ \E n \in Nodes : sthr[n].pc = "allocating")

(* Further claims about the main loop, checked under SpecLoop. *)
\* C37: at any time at most one test round is running: the main loop never
\* starts a round while a round started before has not finished, also when
\* the done callback of a finished round resets the task reference.
C37_OneRoundAtATime ==
    (IF gpu_task \in {"pog", "sybil"} THEN 1 ELSE 0) + Len(orphans) <= 1

\* C38: after a private-slot round a hotkey is in penalized_hotkeys only if
\* it was challenged in that round and did not pass; a node that was not
\* challenged is never penalized by the round.
C38_PenalizedWereChallenged ==
    \A n \in penalized : sthr[n].pc = "returned" /\ ~sthr[n].vp

(* Further claims about the slots, checked under SpecSlot. *)
\* C39: in an odd epoch the slot my_sybil_slot assigns to a validator that is
\* absent from the recognized set (index 0 of a ring of |set| + 1) shares no
\* block with the slot of any validator of the set.
C39_FallbackSlotDisjoint ==
    (/\ spc \in {"check", "draw", "sleeping"}
     /\ my_index = validators
     /\ ~epoch_is_pog(slot_epoch)) =>
        \A other \in 0..(validators - 1) :
            BlocksOf(<<slot_start, slot_end>>) \cap BlocksOf(OthersSlot(other)) = {}

(***************************************************************************)
(* Claims about the two row hashes, checked under SpecHash.                *)
(***************************************************************************)
\* C40: for every row of n >= 1 32-bit words the verifier's row_hash32_np
\* and the node's row_hash_gpu give the same 32-bit digest, so the leaf the
\* verifier recomputes from a returned row is the leaf the node committed.
C40_SameDigest ==
    hashpc = "recomputed" =>
        /\ np_hash = gpu_hash
        /\ sha256(<<np_hash>>) = sha256(<<gpu_hash>>)

\* a row of odd width with a negative entry and a digest that is not zero
C40_Witness ==
    /\ hashpc = "recomputed"
    /\ Len(hrow) = 3
    /\ (WordBits - 1) \in hrow[3]
    /\ hrow[1] # hrow[3]
    /\ np_hash # {}
    /\ np_hash = gpu_hash

=============================================================================
